---------------------------- MODULE Spec2Model ----------------------------
(***************************************************************************)
(* OrbitIQ backend: TLE derivation, epoch resolution, Space-Track session  *)
(* handling and the TLE synchronisation jobs.                              *)
(*                                                                         *)
(* Text is modelled as a sequence of one-character strings, so the fixed   *)
(* column slices, trim, replace and parseFloat/parseInt of the source are  *)
(* computed on the characters and not assumed.  A JavaScript number is a   *)
(* record [k, neg, m, e]: k is "nan", "inf" or "fin", and a finite value   *)
(* is (-1)^neg * m * 10^e.                                                 *)
(***************************************************************************)
EXTENDS Integers, Sequences, FiniteSets, TLC

(***************************************************************************)
(* Strings                                                                 *)
(***************************************************************************)
Min(a, b) == IF a < b THEN a ELSE b

Max(a, b) == IF a > b THEN a ELSE b

\* String.prototype.slice(a, b) for 0 <= a <= b (0-based, end exclusive).
Slice(s, a, b) == SubSeq(s, Min(a, Len(s)) + 1, Min(b, Len(s)))

IsSpace(c) == c \in {" ", "\t", "\n", "\r"}

IsDigit(c) == c \in {"0", "1", "2", "3", "4", "5", "6", "7", "8", "9"}

DigitVal(c) ==
  CASE c = "0" -> 0 [] c = "1" -> 1 [] c = "2" -> 2 [] c = "3" -> 3
    [] c = "4" -> 4 [] c = "5" -> 5 [] c = "6" -> 6 [] c = "7" -> 7
    [] c = "8" -> 8 [] c = "9" -> 9

RECURSIVE SkipSpace(_, _)
\* index of the first non-blank character of s at or after i (Len(s)+1 if none)
SkipSpace(s, i) ==
  IF i <= Len(s) /\ IsSpace(s[i]) THEN SkipSpace(s, i + 1) ELSE i

RECURSIVE LastNonSpace(_, _)
LastNonSpace(s, j) ==
  IF j >= 1 /\ IsSpace(s[j]) THEN LastNonSpace(s, j - 1) ELSE j

\* String.prototype.trim
Trim(s) == SubSeq(s, SkipSpace(s, 1), LastNonSpace(s, Len(s)))

RECURSIVE IndexOf(_, _, _)
\* 1-based index of the first c in s at or after i, 0 if there is none
IndexOf(s, c, i) ==
  IF i > Len(s) THEN 0 ELSE IF s[i] = c THEN i ELSE IndexOf(s, c, i + 1)

\* String.prototype.replace(c, r) with a string pattern: the FIRST occurrence only
ReplaceFirst(s, c, r) ==
  LET p == IndexOf(s, c, 1)
  IN IF p = 0 THEN s
     ELSE SubSeq(s, 1, p - 1) \o r \o SubSeq(s, p + 1, Len(s))

StartsWith(s, p) == Len(s) >= Len(p) /\ SubSeq(s, 1, Len(p)) = p

(***************************************************************************)
(* Numbers                                                                 *)
(***************************************************************************)
NaN == [k |-> "nan", neg |-> FALSE, m |-> 0, e |-> 0]

Fin(neg, m, e) == [k |-> "fin", neg |-> neg, m |-> m, e |-> e]

Infinity(neg) == [k |-> "inf", neg |-> neg, m |-> 0, e |-> 0]

IsFinite(x) == x.k = "fin"

IsZero(x) == x.k = "fin" /\ x.m = 0

\* JavaScript truthiness of a number: NaN, +0 and -0 are falsy
Truthy(x) == x.k # "nan" /\ ~IsZero(x)

\* x <= 0 in JavaScript (false for NaN)
LeqZero(x) == x.k # "nan" /\ (IsZero(x) \/ x.neg)

\* x < 0 in JavaScript
IsNegative(x) == x.k # "nan" /\ ~IsZero(x) /\ x.neg

RECURSIVE Pow10(_)
Pow10(n) == IF n <= 0 THEN 1 ELSE 10 * Pow10(n - 1)

\* s[i], or "" outside the string
Ch(s, i) == IF i >= 1 /\ i <= Len(s) THEN s[i] ELSE ""

FloatStart ==
  [ph |-> "lead", neg |-> FALSE, m |-> 0, nd |-> 0, fd |-> 0, zs |-> 0,
   eneg |-> FALSE, ex |-> 0]

\* the number read so far: NaN without a digit in the mantissa
FloatValue(st) ==
  IF st.nd = 0 THEN NaN
  ELSE Fin(st.neg, st.m, (IF st.eneg THEN 0 - st.ex ELSE st.ex) - st.fd)

\* an exponent part starts at i: e or E, an optional sign, a digit
ExponentAt(s, i) ==
  /\ Ch(s, i) \in {"e", "E"}
  /\ \/ IsDigit(Ch(s, i + 1))
     \/ Ch(s, i + 1) \in {"+", "-"} /\ IsDigit(Ch(s, i + 2))

RECURSIVE ScanFloat(_, _, _)
\* The scan of parseFloat from position i in phase st.ph: leading blanks, a
\* sign, the integer digits, the fraction, the exponent; it stops at the
\* first character that does not continue a decimal literal.  st.m is the
\* mantissa without the trailing zeros of the fraction (st.zs of them are
\* pending), st.fd the number of fraction digits in it, st.nd the number of
\* mantissa digits read.
ScanFloat(s, i, st) ==
  CASE st.ph = "lead" ->
         IF IsSpace(Ch(s, i)) THEN ScanFloat(s, i + 1, st)
         ELSE IF Ch(s, i) \in {"+", "-"}
           THEN ScanFloat(s, i + 1, [st EXCEPT !.ph = "int", !.neg = (Ch(s, i) = "-")])
         ELSE ScanFloat(s, i, [st EXCEPT !.ph = "int"])
    [] st.ph = "int" ->
         IF st.nd = 0 /\ Slice(s, i - 1, i + 7) = <<"I", "n", "f", "i", "n", "i", "t", "y">>
           THEN Infinity(st.neg)
         ELSE IF IsDigit(Ch(s, i))
           THEN ScanFloat(s, i + 1, [st EXCEPT !.m = 10 * @ + DigitVal(Ch(s, i)),
                                               !.nd = @ + 1])
         ELSE IF Ch(s, i) = "." THEN ScanFloat(s, i + 1, [st EXCEPT !.ph = "frac"])
         ELSE ScanFloat(s, i, [st EXCEPT !.ph = "exp"])
    [] st.ph = "frac" ->
         IF Ch(s, i) = "0"
           THEN ScanFloat(s, i + 1, [st EXCEPT !.zs = @ + 1, !.nd = @ + 1])
         ELSE IF IsDigit(Ch(s, i))
           THEN ScanFloat(s, i + 1,
                  [st EXCEPT !.m = @ * Pow10(st.zs + 1) + DigitVal(Ch(s, i)),
                             !.fd = @ + st.zs + 1, !.zs = 0, !.nd = @ + 1])
         ELSE ScanFloat(s, i, [st EXCEPT !.ph = "exp"])
    [] st.ph = "exp" ->
         IF st.nd > 0 /\ ExponentAt(s, i)
           THEN ScanFloat(s, IF IsDigit(Ch(s, i + 1)) THEN i + 1 ELSE i + 2,
                          [st EXCEPT !.ph = "expdigits", !.eneg = (Ch(s, i + 1) = "-")])
         ELSE FloatValue(st)
    [] st.ph = "expdigits" ->
         IF IsDigit(Ch(s, i))
           THEN ScanFloat(s, i + 1, [st EXCEPT !.ex = 10 * @ + DigitVal(Ch(s, i))])
         ELSE FloatValue(st)

\* parseFloat: leading blanks are skipped, then the longest prefix that is a
\* decimal literal (sign, digits, fraction, exponent) is converted; NaN when
\* there is no such prefix.
parseFloat(s) == ScanFloat(s, 1, FloatStart)

RECURSIVE ScanInt(_, _, _)
\* the scan of parseInt in radix 10: blanks, a sign, the leading run of digits
ScanInt(s, i, st) ==
  CASE st.ph = "lead" ->
         IF IsSpace(Ch(s, i)) THEN ScanInt(s, i + 1, st)
         ELSE IF Ch(s, i) \in {"+", "-"}
           THEN ScanInt(s, i + 1, [st EXCEPT !.ph = "int", !.neg = (Ch(s, i) = "-")])
         ELSE ScanInt(s, i, [st EXCEPT !.ph = "int"])
    [] st.ph = "int" ->
         IF IsDigit(Ch(s, i))
           THEN ScanInt(s, i + 1, [st EXCEPT !.m = 10 * @ + DigitVal(Ch(s, i)),
                                             !.nd = @ + 1])
         ELSE FloatValue(st)

parseInt(s) == ScanInt(s, 1, FloatStart)

\* Number.prototype.toFixed(d) followed by parseFloat: the value rounded to d
\* decimals; NaN and the infinities print as "NaN" and "Infinity" and parse
\* back to themselves.
ToFixed(x, d) ==
  IF x.k # "fin" \/ 0 - x.e <= d THEN x
  ELSE LET cut == (0 - x.e) - d
       IN Fin(x.neg, (x.m + 5 * Pow10(cut - 1)) \div Pow10(cut), 0 - d)

(***************************************************************************)
(* Derivation engine.  A result is [ok |-> FALSE] (null) or a record with  *)
(* ok = TRUE and one entry per returned field: k is the class of the       *)
(* number, dec the decimals it was rounded to (-1: returned as parsed),    *)
(* and v the parsed value for the fields read from the text; the fields    *)
(* computed with floating-point arithmetic carry their class only.         *)
(***************************************************************************)
Absent == [ok |-> FALSE]

Parsed(x, d) == [k |-> ToFixed(x, d).k, dec |-> d, v |-> ToFixed(x, d)]

\* a field returned as parsed, without rounding
Raw(x) == [k |-> x.k, dec |-> -1, v |-> x]

Computed(k, d) == [k |-> k, dec |-> d]

\* The body shared by every copy of the derivation after the mean-motion guard.
DerivedFields(line1, line2, meanMotion) ==
  LET \* periodSec = 86400 / meanMotion is zero exactly when meanMotion is infinite
      periodZero   == meanMotion.k = "inf"
      \* semiMajorAxis = cbrt(GM * (periodSec / 2pi)^2) is finite, zero with periodSec
      inclination  == parseFloat(Slice(line2, 8, 16))
      eccentricity == parseFloat(<<"0", ".">> \o Slice(line2, 26, 33))
      raan         == parseFloat(Slice(line2, 17, 25))
      argPerigee   == parseFloat(Slice(line2, 34, 42))
      meanAnomaly  == parseFloat(Slice(line2, 43, 51))
      \* velocity = 2pi * semiMajorAxis / periodSec: 0 / 0 when periodSec is zero
      velocityK    == IF periodZero THEN "nan" ELSE "fin"
      \* perigee, apogee = semiMajorAxis * (1 -+ eccentricity) - R
      periK        == IF eccentricity.k = "fin" THEN "fin" ELSE "nan"
      bstarStr     == Trim(Slice(line1, 53, 63))
      bstar        == IF bstarStr # <<>>
                        THEN parseFloat(ReplaceFirst(ReplaceFirst(bstarStr,
                                 "+", <<"e", "+">>), "-", <<"e", "-">>))
                        ELSE Fin(FALSE, 0, 0)
      mmDotStr     == Trim(Slice(line1, 33, 43))
      mmDot        == IF mmDotStr # <<>> THEN parseFloat(mmDotStr) ELSE Fin(FALSE, 0, 0)
      mmDdotStr    == Trim(Slice(line1, 44, 52))
      mmDdot       == IF mmDdotStr # <<>> THEN parseFloat(mmDdotStr) ELSE Fin(FALSE, 0, 0)
  IN [ok |-> TRUE,
      inclination            |-> Parsed(inclination, 4),
      eccentricity           |-> Parsed(eccentricity, 8),
      mean_motion            |-> Parsed(meanMotion, 8),
      semi_major_axis_km     |-> Computed("fin", 4),
      perigee_km             |-> Computed(periK, 2),
      apogee_km              |-> Computed(periK, 2),
      orbital_period_minutes |-> Computed("fin", 4),
      altitude_km            |-> Computed("fin", 2),
      velocity_kms           |-> Computed(velocityK, 4),
      raan                   |-> Parsed(raan, 4),
      arg_perigee            |-> Parsed(argPerigee, 4),
      mean_anomaly           |-> Parsed(meanAnomaly, 4),
      bstar                  |-> Raw(bstar),
      mean_motion_dot        |-> Raw(mmDot),
      mean_motion_ddot       |-> Raw(mmDdot)]

\* scripts/populateDerived.js, the shared parser (src/unnamed/part_000)
populateDerived(line1, line2) ==
  IF \/ line1 = <<>> \/ line2 = <<>>
     \/ ~Truthy(parseFloat(Slice(line2, 52, 63)))
     \/ LeqZero(parseFloat(Slice(line2, 52, 63)))
  THEN Absent
  ELSE DerivedFields(line1, line2, parseFloat(Slice(line2, 52, 63)))

\* calculateDerived of the per-object cron job (src/unnamed/part_001)
calculateDerivedCron(line1, line2) ==
  IF \/ line1 = <<>> \/ line2 = <<>>
     \/ ~Truthy(parseFloat(Slice(line2, 52, 63)))
     \/ LeqZero(parseFloat(Slice(line2, 52, 63)))
  THEN Absent
  ELSE DerivedFields(line1, line2, parseFloat(Slice(line2, 52, 63)))

\* calculateDerived of the batched job (src/jobs/fetchDailyTLEs.js:186)
calculateDerivedBatch(line1, line2) ==
  IF \/ line1 = <<>> \/ line2 = <<>>
     \/ ~Truthy(parseFloat(Slice(line2, 52, 63)))
  THEN Absent
  ELSE DerivedFields(line1, line2, parseFloat(Slice(line2, 52, 63)))

\* calculateDerived of the backfill script (src/scripts/populatedDerived.js)
calculateDerivedScript(line1, line2) ==
  IF \/ line1 = <<>> \/ line2 = <<>>
     \/ ~Truthy(parseFloat(Slice(line2, 52, 63)))
  THEN Absent
  ELSE DerivedFields(line1, line2, parseFloat(Slice(line2, 52, 63)))

NumericFields ==
  {"inclination", "eccentricity", "mean_motion", "semi_major_axis_km",
   "perigee_km", "apogee_km", "orbital_period_minutes", "altitude_km",
   "velocity_kms", "raan", "arg_perigee", "mean_anomaly", "bstar",
   "mean_motion_dot", "mean_motion_ddot"}

AllFinite(d) == \A f \in NumericFields : d[f].k = "fin"


(***************************************************************************)
(* Element-set text.  A line is 69 characters in the published layout;     *)
(* the samples below are the field values the model draws its inputs from. *)
(***************************************************************************)
\* catalog number, columns 3-7 of both lines
CatIss == <<"2", "5", "5", "4", "4">>

CatFive == <<"0", "0", "0", "0", "5">>

\* epoch year and day of year, columns 19-20 and 21-32 of line 1
Yy24 == <<"2", "4">>

Day123 == <<"1", "2", "3", ".", "5", "0", "0", "0", "0", "0", "0", "0">>

Day124 == <<"1", "2", "4", ".", "2", "5", "0", "0", "0", "0", "0", "0">>

\* first and second derivative of mean motion, columns 34-43 and 45-52 of line 1
MmDot == <<" ", ".", "0", "0", "0", "1", "6", "7", "1", "7">>

MmDdot == <<" ", "0", "0", "0", "0", "0", "-", "0">>

\* drag term, columns 54-61 of line 1
BstarPos == <<" ", "1", "0", "2", "7", "0", "-", "3">>

BstarNeg == <<"-", "1", "1", "6", "0", "6", "-", "4">>

BstarBlank == <<" ", " ", " ", " ", " ", " ", " ", " ">>

\* inclination, columns 9-16 of line 2
IncIss == <<" ", "5", "1", ".", "6", "4", "0", "0">>

IncBlank == <<" ", " ", " ", " ", " ", " ", " ", " ">>

\* RAAN, eccentricity, argument of perigee, mean anomaly of line 2
RaanIss == <<"2", "4", "7", ".", "4", "6", "2", "7">>

RaanBlank == <<" ", " ", " ", " ", " ", " ", " ", " ">>

EccIss == <<"0", "0", "0", "6", "7", "0", "3">>

ArgpIss == <<"1", "3", "0", ".", "5", "3", "6", "0">>

MaIss == <<"3", "2", "5", ".", "0", "2", "8", "8">>

\* mean motion, columns 53-63 of line 2
MmIss == <<"1", "5", ".", "5", "0", "0", "0", "0", "0", "0", "0">>

MmZero == <<" ", "0", ".", "0", "0", "0", "0", "0", "0", "0", "0">>

MmNegative == <<"-", "1", ".", "0", "0", "2", "7", "3", "7", "9", "0">>

MmBlank == <<" ", " ", " ", " ", " ", " ", " ", " ", " ", " ", " ">>

Line1(cat, yy, day, bstar) ==
  <<"1", " ">> \o cat \o <<"U", " ">>
    \o <<"9", "8", "0", "6", "7", "A", " ", " ">> \o <<" ">>
    \o yy \o day \o <<" ">> \o MmDot \o <<" ">> \o MmDdot \o <<" ">>
    \o bstar \o <<" ", "0", " ">> \o <<" ", "9", "9", "9">> \o <<"3">>

Line2(cat, inc, raan, mm) ==
  <<"2", " ">> \o cat \o <<" ">> \o inc \o <<" ">> \o raan \o <<" ">>
    \o EccIss \o <<" ">> \o ArgpIss \o <<" ">> \o MaIss \o <<" ">>
    \o mm \o <<"4", "5", "2", "1", "2">> \o <<"7">>

\* The texts of the model, by name: the state holds the names, the operators
\* work on the characters.  "none" is the missing line (null, undefined and ""
\* are all falsy and stop at the guards).
\* the body the upstream answers a query without a match with
NoResults ==
  <<"N", "O", " ", "R", "E", "S", "U", "L", "T", "S", " ",
    "R", "E", "T", "U", "R", "N", "E", "D">>

TextNames ==
  {"none", "l1_iss", "l1_iss_bneg", "l1_iss_bblank", "l1_iss_d124", "l1_five",
   "l2_iss", "l2_iss_incblank", "l2_iss_rblank", "l2_iss_mmzero", "l2_iss_mmneg",
   "l2_iss_mmblank", "l2_iss_bad2", "l2_iss_bad3", "l2_five", "n_iss", "n0_iss",
   "unknown", "noresults"}

Text(n) ==
  CASE n = "none"            -> <<>>
    [] n = "l1_iss"          -> Line1(CatIss, Yy24, Day123, BstarPos)
    [] n = "l1_iss_bneg"     -> Line1(CatIss, Yy24, Day123, BstarNeg)
    [] n = "l1_iss_bblank"   -> Line1(CatIss, Yy24, Day123, BstarBlank)
    [] n = "l1_iss_d124"     -> Line1(CatIss, Yy24, Day124, BstarPos)
    [] n = "l1_five"         -> Line1(CatFive, Yy24, Day123, BstarPos)
    [] n = "l2_iss"          -> Line2(CatIss, IncIss, RaanIss, MmIss)
    [] n = "l2_iss_incblank" -> Line2(CatIss, IncBlank, RaanIss, MmIss)
    [] n = "l2_iss_rblank"   -> Line2(CatIss, IncIss, RaanBlank, MmIss)
    [] n = "l2_iss_mmzero"   -> Line2(CatIss, IncIss, RaanIss, MmZero)
    [] n = "l2_iss_mmneg"    -> Line2(CatIss, IncIss, RaanIss, MmNegative)
    [] n = "l2_iss_mmblank"  -> Line2(CatIss, IncIss, RaanIss, MmBlank)
    [] n = "l2_iss_bad2"     -> Line2(CatIss, IncBlank, RaanIss, MmNegative)
    [] n = "l2_iss_bad3"     -> Line2(CatIss, IncBlank, RaanBlank, MmZero)
    [] n = "l2_five"         -> Line2(CatFive, IncIss, RaanIss, MmIss)
    [] n = "n_iss"           -> <<"I", "S", "S", " ", "(", "Z", "A", "R", "Y", "A", ")">>
    [] n = "n0_iss"          -> <<"0", " ", "I", "S", "S", " ", "(", "Z", "A", "R", "Y", "A", ")">>
    [] n = "unknown"         -> <<"U", "N", "K", "N", "O", "W", "N">>
    [] n = "noresults"       -> NoResults

\* the name of a text of the model
NameOf(t) == CHOOSE n \in TextNames : Text(n) = t

Line1Samples == {"none", "l1_iss", "l1_iss_bneg", "l1_iss_bblank"}

Line2Samples ==
  {"none", "l2_iss", "l2_iss_incblank", "l2_iss_rblank", "l2_iss_mmzero",
   "l2_iss_mmneg", "l2_iss_mmblank", "l2_iss_bad2", "l2_iss_bad3"}

(***************************************************************************)
(* Epoch resolution.  An instant is [valid, year, day, ms]: the UTC year,  *)
(* the day of that year the date was set to (1 = 1 January; the Date       *)
(* arithmetic carries other values into the neighbouring year) and the     *)
(* offset into the day in milliseconds; an Invalid Date is [valid |->      *)
(* FALSE].  Sample fractions have at most six significant digits, for      *)
(* which the products below are the exact ones.                            *)
(***************************************************************************)
InvalidDate == [valid |-> FALSE]

\* x truncated towards zero (ToIntegerOrInfinity), for a finite x
TruncInt(x) ==
  LET a == IF x.e >= 0 THEN x.m * Pow10(x.e) ELSE x.m \div Pow10(0 - x.e)
  IN IF x.neg THEN 0 - a ELSE a

\* Math.floor(x), for a finite x
FloorInt(x) ==
  LET t == TruncInt(x)
      whole == x.e >= 0 \/ x.m % Pow10(0 - x.e) = 0
  IN IF x.neg /\ ~whole THEN t - 1 ELSE t

\* trunc((x % 1) * 864 * 10^shift), for a finite x: the fraction of a day in
\* seconds (shift 2) or in milliseconds (shift 5)
FractionOfDay(x, shift) ==
  LET k  == IF x.e >= 0 THEN 0 ELSE 0 - x.e
      fr == IF k = 0 THEN 0 ELSE x.m % Pow10(k)
      a  == IF k <= shift THEN fr * 864 * Pow10(shift - k)
            ELSE (fr * 864) \div Pow10(k - shift)
  IN IF x.neg THEN 0 - a ELSE a

\* variant: year < 56 in place of year < 57
FullYearPivot56(year) ==
  IF year.k # "fin" THEN NaN
  ELSE IF TruncInt(year) < 56 THEN Fin(FALSE, 2000 + TruncInt(year), 0)
  ELSE Fin(FALSE, 1900 + TruncInt(year), 0)

\* const fullYear = year < 57 ? 2000 + year : 1900 + year
FullYear(year) ==
  IF year.k # "fin" THEN NaN
  ELSE IF TruncInt(year) < 57 THEN Fin(FALSE, 2000 + TruncInt(year), 0)
  ELSE Fin(FALSE, 1900 + TruncInt(year), 0)

\* per-object cron job: setUTCDate(getUTCDate() + dayOfYear - 1), then
\* setSeconds(getSeconds() + fraction * 86400)
EpochCron(line1) ==
  LET year      == parseInt(Slice(line1, 18, 20))
      dayOfYear == parseFloat(Slice(line1, 20, 32))
      fullYear  == FullYear(year)
  IN IF fullYear.k # "fin" \/ dayOfYear.k # "fin" THEN InvalidDate
     ELSE [valid |-> TRUE, year |-> fullYear.m, day |-> TruncInt(dayOfYear),
           ms |-> 1000 * FractionOfDay(dayOfYear, 2)]

\* one-shot job: setUTCDate(getUTCDate() + Math.floor(dayOfYear) - 1), then
\* setMilliseconds(getMilliseconds() + (dayOfYear % 1) * 86400000)
EpochOneShot(line1) ==
  LET year      == parseInt(Slice(line1, 18, 20))
      dayOfYear == parseFloat(Slice(line1, 20, 32))
      fullYear  == FullYear(year)
  IN IF fullYear.k # "fin" \/ dayOfYear.k # "fin" THEN InvalidDate
     ELSE [valid |-> TRUE, year |-> fullYear.m, day |-> FloorInt(dayOfYear),
           ms |-> FractionOfDay(dayOfYear, 5)]

\* /add-satellite of the web server: as the cron job
EpochAdd(line1) ==
  LET year      == parseInt(Slice(line1, 18, 20))
      dayOfYear == parseFloat(Slice(line1, 20, 32))
      fullYear  == FullYear(year)
  IN IF fullYear.k # "fin" \/ dayOfYear.k # "fin" THEN InvalidDate
     ELSE [valid |-> TRUE, year |-> fullYear.m, day |-> TruncInt(dayOfYear),
           ms |-> 1000 * FractionOfDay(dayOfYear, 2)]

\* batched job: as the cron job
EpochBatch(line1) ==
  LET year      == parseInt(Slice(line1, 18, 20))
      dayOfYear == parseFloat(Slice(line1, 20, 32))
      fullYear  == FullYear(year)
  IN IF fullYear.k # "fin" \/ dayOfYear.k # "fin" THEN InvalidDate
     ELSE [valid |-> TRUE, year |-> fullYear.m, day |-> TruncInt(dayOfYear),
           ms |-> 1000 * FractionOfDay(dayOfYear, 2)]

(***************************************************************************)
(* Persistence.  A table is a bag of rows (row |-> number of copies).      *)
(***************************************************************************)
RowKey(r) == <<r.norad_id, r.epoch, r.user_id>>

Copies(table, r) == IF r \in DOMAIN table THEN table[r] ELSE 0

AddRow(table, r) ==
  [x \in DOMAIN table \cup {r} |-> Copies(table, x) + (IF x = r THEN 1 ELSE 0)]

HasKey(table, k) == \E r \in DOMAIN table : RowKey(r) = k

\* variant: the INSERT without its ON CONFLICT clause, on a table without the
\* unique index
InsertAlways(table, row) == AddRow(table, row)

\* variant: ON CONFLICT (norad_id, epoch, user_id) DO UPDATE SET ... instead of
\* DO NOTHING
InsertOrUpdate(table, row) ==
  [x \in {r \in DOMAIN table : RowKey(r) # RowKey(row)} \cup {row} |->
     IF x = row THEN 1 ELSE table[x]]

\* INSERT ... ON CONFLICT (norad_id, epoch, user_id) DO NOTHING.  The tables are
\* created outside this repository; PostgreSQL accepts this conflict target
\* only with a unique index on the three columns, which the model takes as
\* present.
InsertDoNothing(table, row) ==
  IF HasKey(table, RowKey(row)) THEN table ELSE AddRow(table, row)

\* rows of a table that share key k
RowsWithKey(table, k) == {r \in DOMAIN table : RowKey(r) = k}

RECURSIVE SumCopies(_, _)
SumCopies(table, rs) ==
  IF rs = {} THEN 0
  ELSE LET r == CHOOSE x \in rs : TRUE
       IN table[r] + SumCopies(table, rs \ {r})

\* number of stored rows with key k
CountKey(table, k) == SumCopies(table, RowsWithKey(table, k))

EmptyTable == [r \in {} |-> 0]

(***************************************************************************)
(* Upstream catalogue and response bodies                                  *)
(***************************************************************************)
\* the satellites table, as SELECT norad_id, user_id ... returns it; the jobs
\* only read it
TrackedConfigs ==
  { <<>>,
    <<[norad_id |-> 25544, user_id |-> "u1"]>>,
    <<[norad_id |-> 25544, user_id |-> "u1"], [norad_id |-> 5, user_id |-> "u2"]>>,
    <<[norad_id |-> 25544, user_id |-> "u1"], [norad_id |-> 25544, user_id |-> "u2"]>> }

Norads == {25544, 5}

\* element sets the upstream may hold for a catalog number: those of 25544
\* share line 1 (one epoch) and differ in line 2, one with a negative mean
\* motion
Catalogue(norad) ==
  IF norad = 25544
    THEN { [name |-> "n0_iss", line1 |-> "l1_iss", line2 |-> "l2_iss"],
           [name |-> "n0_iss", line1 |-> "l1_iss", line2 |-> "l2_iss_mmneg"] }
  ELSE IF norad = 5
    THEN { [name |-> "n0_iss", line1 |-> "l1_five", line2 |-> "l2_five"] }
  ELSE {}

\* orderby EPOCH desc: the order the upstream lists two element sets in (sets
\* of one epoch in the order of their line 2)
Newer(e1, e2) ==
  LET rank(e) == CASE e.line2 = "l2_iss" -> 1 [] e.line2 = "l2_iss_mmneg" -> 2
                   [] e.line2 = "l2_five" -> 3
  IN rank(e1) < rank(e2)

AllSets == UNION {Catalogue(n) : n \in Norads}

NL == <<"\n">>

RECURSIVE TleText(_)
\* format/tle: line 1 and line 2 of each element set
TleText(sets) ==
  IF sets = <<>> THEN <<>>
  ELSE Text(Head(sets).line1) \o NL \o Text(Head(sets).line2) \o NL
         \o TleText(Tail(sets))

\* format/3le: a "0 NAME" line before the two lines
Text3le(es) == Text(es.name) \o NL \o Text(es.line1) \o NL \o Text(es.line2) \o NL

\* A response body is named by what it holds; BodyText is its text.
BodyText(b) ==
  CASE b.kind = "empty"     -> <<>>
    [] b.kind = "noresults" -> NoResults \o NL
    [] b.kind = "tle"       -> TleText(b.sets)
    [] b.kind = "3le"       -> Text3le(b.sets[1])

EmptyBody == [kind |-> "empty", sets |-> <<>>]

NoResultsBody == [kind |-> "noresults", sets |-> <<>>]

\* the bodies the upstream may answer a per-object query (limit/1) with
BodiesFor(variant, norad) ==
  {EmptyBody, NoResultsBody}
    \cup {[kind |-> IF variant = "cron" THEN "tle" ELSE "3le", sets |-> <<es>>] :
            es \in Catalogue(norad)}

\* the bodies the upstream may answer the batched query with: up to two
\* element sets of the listed catalog numbers
BatchBodiesFor(norads) ==
  LET sets == UNION {Catalogue(n) : n \in norads}
  IN {EmptyBody, NoResultsBody}
       \cup {[kind |-> "tle", sets |-> <<e>>] : e \in sets}
       \cup {[kind |-> "tle", sets |-> <<pr[1], pr[2]>>] :
               pr \in {q \in sets \X sets : Newer(q[1], q[2])}}

AllBodies ==
  UNION {BodiesFor(v, n) : v \in {"cron", "oneshot"}, n \in Norads}
    \cup BatchBodiesFor(Norads)

RECURSIVE Split(_, _)
\* String.prototype.split(c)
Split(s, c) ==
  LET p == IndexOf(s, c, 1)
  IN IF p = 0 THEN <<s>>
     ELSE <<SubSeq(s, 1, p - 1)>> \o Split(SubSeq(s, p + 1, Len(s)), c)

RECURSIVE TrimAll(_)
\* .map(l => l.trim())
TrimAll(ls) == IF ls = <<>> THEN <<>> ELSE <<Trim(Head(ls))>> \o TrimAll(Tail(ls))

NonEmpty(l) == l # <<>>

\* data.split('\n').map(l => l.trim()).filter(Boolean)
SplitLines(data) == SelectSeq(TrimAll(Split(data, "\n")), NonEmpty)

\* lines[k] of JavaScript (0-based), undefined read as the missing line
At(lines, k) == IF k < Len(lines) THEN lines[k + 1] ELSE <<>>

RECURSIVE IntToStr(_)
\* String(n) for n >= 0
IntToStr(n) ==
  LET d == <<"0", "1", "2", "3", "4", "5", "6", "7", "8", "9">>[(n % 10) + 1]
  IN IF n < 10 THEN <<d>> ELSE IntToStr(n \div 10) \o <<d>>

(***************************************************************************)
(* State                                                                   *)
(***************************************************************************)
VARIABLES
  satellites,   \* tracked objects, as the jobs' SELECT returns them
  tle_history,  \* table tle_history
  tle_derived,  \* table tle_derived
  dbFault,      \* whether the database rejects the next statement it receives
  procs,        \* the job processes that may run
  job,          \* per job process: its variables and its position
  obs,          \* per job process: what its invocation and its current attempt did
  passes,       \* number of pass invocations started so far
  dline1,       \* derivation check: the first argument (a name of TextNames)
  dline2,       \* derivation check: the second argument
  dimpl,        \* derivation check: the copy that was applied, "none" before
  dres,         \* derivation check: its result
  eyy,          \* epoch check: the two-digit year of line 1, columns 19-20
  epath,        \* epoch check: the code path that was applied, "none" before
  eres,         \* epoch check: the epoch it resolved
  rdata,        \* regime check: the argument of calculateDerivedParams
  rres,         \* regime check: its result, NoParams before
  hostZone,     \* ordering check: the time zone of the host (a name of HostZones)
  mdays,        \* ordering check: two days of year, columns 21-32 of line 1
  mres,         \* ordering check: the epochs resolved for them, <<>> before
  fill,         \* backfill script: its position, the rows of its SELECT it has
                \* not gone through, the row it handled last, its exit status
  pairIndex,    \* whether tle_derived has a unique index on (norad_id, epoch)
  telemetry,    \* table telemetry
  call,         \* web server: per request handler, the request of an
                \* authenticated user it serves and its answer
  web,          \* web server: its Space-Track session (cookies, lastLogin, rateLimitUntil)
  now,          \* web server: Date.now(), in milliseconds
  req,          \* web server: per request handler, its route and position
  hands,        \* web server: the request handlers that may run
  last429,      \* time of the latest 429 answer to the web server, -1 if none
  rejected401,  \* a query of the web server was answered 401 and no login was
                \* answered since
  snapshot,     \* table satellites: per (norad_id, user_id) of its rows, the
                \* columns tle_line1 and tle_line2 (names of TextNames)
  advances      \* number of clock advances so far

varsDerive ==
  <<dline1, dline2, dimpl, dres, eyy, epath, eres, rdata, rres, hostZone, mdays, mres,
    fill, pairIndex, telemetry, call>>

varsJobs == <<satellites, tle_history, tle_derived, dbFault, procs, job, obs, passes>>

varsWeb == <<web, now, req, hands, last429, rejected401, snapshot, advances>>

vars == <<satellites, tle_history, tle_derived, dbFault, procs, job, obs, passes,
          dline1, dline2, dimpl, dres, eyy, epath, eres, rdata, rres, hostZone, mdays, mres,
          fill, pairIndex, telemetry, call,
          web, now, req, hands, last429, rejected401,
          snapshot, advances>>

(***************************************************************************)
(* Job processes.  Each runs one of the three job files: "cron" (per       *)
(* object, format tle), "oneshot" (per object, format 3le, exits when      *)
(* done) and "batch" (one request for all objects, retried, repeated on a  *)
(* 12 h timer).  Every await of the source is a position; the synchronous  *)
(* code up to the next await is one step.                                  *)
(***************************************************************************)
Procs == {1, 2}

MaxPasses == 2

PerObject == {"cron", "oneshot"}

Variants == {"cron", "oneshot", "batch"}

NoCur == [name |-> "none", line1 |-> "none", line2 |-> "none"]

\* ticks counts the 12-hour timer ticks since the cookies the job holds were
\* set (0 without cookies), last is how the pass before the running one ended
NoJob ==
  [variant |-> "none", creds |-> FALSE, pc |-> "exited", cookies |-> FALSE,
   rows |-> <<>>, idx |-> 0, cur |-> NoCur, user |-> "none",
   retryCount |-> 0, body |-> EmptyBody, i |-> 0, result |-> "none",
   exit |-> "none", ticks |-> 0, last |-> "none"]

\* logins, attempts and other (an attempt failed for another reason than the
\* upstream request) are kept per invocation of fetchAndStoreTLEs; readRows,
\* fetched, failed and wrote per attempt; err is how the latest request of a
\* per-object pass failed ("none" when it was answered)
NewObs ==
  [logins |-> 0, attempts |-> 0, readRows |-> FALSE, fetched |-> {},
   failed |-> {}, wrote |-> FALSE, other |-> FALSE, err |-> "none"]

NoData == [mean_motion |-> 0, semi_major_axis |-> 0]

NoParams == [altitude |-> 0, orbit_type |-> "none"]

\* last holds the history row the loop handled last
NoFill == [pc |-> "idle", todo |-> {}, last |-> {}, exit |-> "none"]

\* the ordering check's variables while no order of epochs is checked, and the
\* backfill script while it does not run
OrderIdle ==
  /\ hostZone = "UTC"
  /\ mdays = <<>>
  /\ mres = <<>>
  /\ fill = NoFill
  /\ pairIndex = FALSE
  /\ telemetry = {}
  /\ call = <<>>

\* the regime check's variables while no regime is checked
RegimeIdle ==
  /\ rdata = NoData
  /\ rres = NoParams

\* the epoch check's variables while no epoch is checked
EpochIdle ==
  /\ eyy = 0
  /\ epath = "none"
  /\ eres = InvalidDate

\* the derivation check's variables while the jobs run
DeriveIdle ==
  /\ dline1 = "none"
  /\ dline2 = "none"
  /\ dimpl = "none"
  /\ dres = Absent
  /\ EpochIdle
  /\ RegimeIdle
  /\ OrderIdle

Handlers == {1, 2}

MaxRequests == 3

\* n numbers the request, at is the time it called ensureSession (while it is served), login how the
\* handler's loginToSpaceTrack call went ("none" without a call), logins the login requests it sent, session what its ensureSession
\* returned, status its answer
NoReq == [route |-> "none", pc |-> "idle", n |-> 0, at |-> 0, login |-> "none", logins |-> 0,
          session |-> "none", status |-> "none"]

\* the (norad_id, user_id) of the rows of satellites
PairsOf(rows) == {<<rows[k].norad_id, rows[k].user_id>> : k \in 1..Len(rows)}

\* the columns ALTER TABLE satellites ADD COLUMN IF NOT EXISTS tle_line1 TEXT,
\* tle_line2 TEXT added to a row that was there before: NULL
NullSnapshot == [tle_line1 |-> "none", tle_line2 |-> "none"]

\* let cookies = null; let lastLogin = 0; let rateLimitUntil = 0; the
\* credentials of the environment are configured or not
InitWeb ==
  /\ web \in {[cookies |-> FALSE, lastLogin |-> 0, rateLimitUntil |-> 0, creds |-> c] :
                c \in BOOLEAN}
  /\ now = 0
  /\ req = [h \in Handlers |-> NoReq]
  /\ last429 = -1
  /\ rejected401 = FALSE
  /\ snapshot = [pr \in PairsOf(satellites) |-> NullSnapshot]
  /\ advances = 0

\* the web server's variables while it serves no request
WebIdle ==
  /\ web = [cookies |-> FALSE, lastLogin |-> 0, rateLimitUntil |-> 0, creds |-> FALSE]
  /\ now = 0
  /\ req = [h \in Handlers |-> NoReq]
  /\ hands = {}
  /\ last429 = -1
  /\ rejected401 = FALSE
  /\ snapshot = <<>>
  /\ advances = 0

\* the job variables while no job runs
JobsIdle ==
  /\ satellites = <<>>
  /\ tle_history = <<>>
  /\ tle_derived = <<>>
  /\ dbFault = FALSE
  /\ procs = {}
  /\ job = <<>>
  /\ obs = <<>>
  /\ passes = 0

InitJobs ==
  /\ satellites \in TrackedConfigs
  /\ tle_history = EmptyTable
  /\ tle_derived = EmptyTable
  /\ dbFault = FALSE
  /\ job = [p \in Procs |-> NoJob]
  /\ obs = [p \in Procs |-> NewObs]
  /\ passes = 0
  /\ DeriveIdle

\* login of the cron job: [sent, cookies, ret]
loginCron(j, accepted) ==
  IF ~j.creds THEN [sent |-> FALSE, cookies |-> j.cookies, ret |-> FALSE]
  ELSE IF accepted THEN [sent |-> TRUE, cookies |-> TRUE, ret |-> TRUE]
  ELSE [sent |-> TRUE, cookies |-> FALSE, ret |-> FALSE]

\* loginToSpaceTrack of the one-shot job
loginOneShot(j, accepted) ==
  IF ~j.creds THEN [sent |-> FALSE, cookies |-> j.cookies, ret |-> FALSE]
  ELSE IF accepted THEN [sent |-> TRUE, cookies |-> TRUE, ret |-> TRUE]
  ELSE [sent |-> TRUE, cookies |-> FALSE, ret |-> FALSE]

\* login of the batched job: no check of the credentials before the request
loginBatch(j, accepted) ==
  IF accepted THEN [sent |-> TRUE, cookies |-> TRUE, ret |-> TRUE]
  ELSE [sent |-> TRUE, cookies |-> FALSE, ret |-> FALSE]

LoginOf(j, accepted) ==
  CASE j.variant = "cron"    -> loginCron(j, accepted)
    [] j.variant = "oneshot" -> loginOneShot(j, accepted)
    [] j.variant = "batch"   -> loginBatch(j, accepted)

\* the per-object cron job's handling of a response body up to the inserts
ParseCron(body) ==
  LET data  == Trim(body)
      lines == SplitLines(data)
      name  == At(lines, 0)
      line1 == At(lines, 1)
      line2 == IF At(lines, 2) # <<>> THEN At(lines, 2) ELSE At(lines, 1)
  IN IF data = <<>> \/ Len(lines) < 2 THEN [ok |-> FALSE]
     ELSE IF ~calculateDerivedCron(line1, line2).ok THEN [ok |-> FALSE]
     ELSE [ok |-> TRUE, name |-> NameOf(name), line1 |-> NameOf(line1),
           line2 |-> NameOf(line2)]

\* the one-shot job's handling of a response body up to the inserts
ParseOneShot(body) ==
  LET data  == Trim(body)
      lines == SplitLines(data)
      name  == At(lines, 0)
      line1 == At(lines, 1)
      line2 == At(lines, 2)
  IN IF data = <<>> \/ Len(data) < 50 \/ Len(lines) < 3 THEN [ok |-> FALSE]
     ELSE IF ~populateDerived(line1, line2).ok THEN [ok |-> FALSE]
     ELSE [ok |-> TRUE, name |-> NameOf(name), line1 |-> NameOf(line1),
           line2 |-> NameOf(line2)]

\* response.data.trim().split('\n').map(l => l.trim()).filter(Boolean), as names
LinesOf(body) ==
  LET lines == SplitLines(Trim(body))
  IN [k \in 1..Len(lines) |-> NameOf(lines[k])]

EpochOf(variant, line1) ==
  CASE variant = "cron"    -> EpochCron(line1)
    [] variant = "oneshot" -> EpochOneShot(line1)
    [] variant = "batch"   -> EpochBatch(line1)

DerivedOf(variant, line1, line2) ==
  CASE variant = "cron"    -> calculateDerivedCron(line1, line2)
    [] variant = "oneshot" -> populateDerived(line1, line2)
    [] variant = "batch"   -> calculateDerivedBatch(line1, line2)

\* The conversions above, tabulated once per text.
EpochTable == [v \in Variants |-> [n \in TextNames |-> EpochOf(v, Text(n))]]

DerivedTable ==
  [v \in Variants |->
     [a \in TextNames |-> [b \in TextNames |-> DerivedOf(v, Text(a), Text(b))]]]

ParseTable ==
  [b \in AllBodies |->
     [cron |-> ParseCron(BodyText(b)), oneshot |-> ParseOneShot(BodyText(b))]]

LinesTable == [b \in AllBodies |-> LinesOf(BodyText(b))]

NoradTable ==
  [n \in TextNames |-> [str |-> Trim(Slice(Text(n), 2, 7)),
                        num |-> TruncInt(parseInt(Trim(Slice(Text(n), 2, 7)))),
                        is1 |-> StartsWith(Text(n), <<"1", " ">>),
                        is2 |-> StartsWith(Text(n), <<"2", " ">>)]]

\* the norad and userId of the element set a job is storing
CurNorad(j) ==
  IF j.variant = "batch" THEN NoradTable[j.cur.line1].num
  ELSE j.rows[j.idx].norad_id

CurUser(j) == IF j.variant = "batch" THEN j.user ELSE j.rows[j.idx].user_id

\* the parameters of INSERT INTO tle_history
HistoryRow(j) ==
  [norad_id |-> CurNorad(j), name |-> j.cur.name, tle_line1 |-> j.cur.line1,
   tle_line2 |-> j.cur.line2, epoch |-> EpochTable[j.variant][j.cur.line1],
   user_id |-> CurUser(j)]

\* the parameters of INSERT INTO tle_derived
DerivedRow(j) ==
  [norad_id |-> CurNorad(j), name |-> j.cur.name,
   epoch |-> EpochTable[j.variant][j.cur.line1],
   d |-> DerivedTable[j.variant][j.cur.line1][j.cur.line2],
   user_id |-> CurUser(j)]

\* pool.query of an INSERT ... ON CONFLICT DO NOTHING: it rejects when the
\* database fails or when a parameter cannot be stored (an Invalid Date)
ExecInsert(table, row, up) ==
  IF ~up \/ ~row.epoch.valid
    THEN [table |-> table, status |-> "error"]
  ELSE IF HasKey(table, RowKey(row))
    THEN [table |-> InsertDoNothing(table, row), status |-> "noop"]
  ELSE [table |-> InsertDoNothing(table, row), status |-> "inserted"]

FetchErrors == {"timeout", "network", "http401", "http429", "http500"}

\* what the jobs' catch blocks could tell apart by err.response?.status
ErrClass(err) == IF err \in {"none", "http401", "http429"} THEN err ELSE "other"

\* positions at which a job awaits pool.query
DbPositions == {"query", "ins_hist", "ins_der"}

\* the database will reject the next statement it receives (connection lost,
\* server error)
DbFails ==
  /\ ~dbFault
  /\ \E p \in procs : job[p].pc \in DbPositions
  /\ dbFault' = TRUE
  /\ UNCHANGED <<satellites, tle_history, tle_derived, procs, job, obs, passes>>
  /\ UNCHANGED <<varsDerive, varsWeb>>

\* invocations of fetchAndStoreTLEs and web requests the model follows:
\* MaxRequests of the web server alone, MaxPasses beside one job process, one
\* per process when several run side by side
PassLimit ==
  IF procs = {} THEN MaxRequests
  ELSE IF Cardinality(procs) = 1 THEN MaxPasses
  ELSE Cardinality(procs)

\* a process of one of the job files starts: module load, then the call of
\* fetchAndStoreTLEs (runForever for the batched job)
StartProcess(p, v, c) ==
  /\ p \in procs
  /\ job[p].pc = "exited"
  /\ passes < PassLimit
  /\ passes' = passes + 1
  /\ job' = [job EXCEPT ![p] = [NoJob EXCEPT !.variant = v, !.creds = c,
                                             !.pc = "start", !.result = "running"]]
  /\ obs' = [obs EXCEPT ![p] = NewObs]
  /\ UNCHANGED <<satellites, tle_history, tle_derived, dbFault, procs>>
  /\ UNCHANGED <<varsDerive, varsWeb>>

\* The exit status of the process of a job file once fetchAndStoreTLEs is
\* left.  The one-shot job calls process.exit(0) in the finally of its try;
\* its return for want of a session lies before the try, and the process then
\* ends with nothing left to wait for, which is status 0 as well.  The cron
\* job's file sets no status.
ExitStatus(variant, result) == IF variant = "oneshot" THEN "0" ELSE "none"

\* how a per-object pass leaves fetchAndStoreTLEs: the process is over
Leave(j, result) ==
  [NoJob EXCEPT !.variant = j.variant, !.result = result,
                !.exit = ExitStatus(j.variant, result)]

\* the for loop moves to the next object, or the pass completes
NextObject(j) ==
  IF j.idx < Len(j.rows)
    THEN [j EXCEPT !.idx = j.idx + 1, !.pc = "fetch", !.cur = NoCur]
  ELSE Leave(j, "complete")

\* variant: if (!cookies) await login(); without the return
PassStartGoesOn(p, accepted) ==
  LET j == job[p]
      l == LoginOf(j, accepted)
  IN /\ p \in procs
     /\ j.pc = "start"
     /\ j.variant \in PerObject
     /\ accepted => j.creds
     /\ job' = [job EXCEPT ![p] =
                  [j EXCEPT !.cookies = IF j.cookies THEN TRUE ELSE l.cookies,
                            !.pc = "query"]]
     /\ obs' = [obs EXCEPT ![p].attempts = @ + 1,
                           ![p].logins = @ + (IF ~j.cookies /\ l.sent THEN 1 ELSE 0)]
     /\ UNCHANGED <<satellites, tle_history, tle_derived, dbFault, procs, passes>>
     /\ UNCHANGED <<varsDerive, varsWeb>>

\* if (!cookies && !(await login())) return;
PassStart(p, accepted) ==
  LET j == job[p]
      l == LoginOf(j, accepted)
  IN /\ p \in procs
     /\ j.pc = "start"
     /\ j.variant \in PerObject
     /\ accepted => j.creds
     /\ IF j.cookies
          THEN /\ job' = [job EXCEPT ![p] = [j EXCEPT !.pc = "query"]]
               /\ obs' = [obs EXCEPT ![p].attempts = @ + 1]
          ELSE /\ job' = [job EXCEPT ![p] =
                            IF l.ret THEN [j EXCEPT !.cookies = l.cookies, !.pc = "query"]
                            ELSE Leave(j, "no_session")]
               /\ obs' = [obs EXCEPT ![p].attempts = @ + 1,
                                     ![p].logins = @ + (IF l.sent THEN 1 ELSE 0)]
     /\ UNCHANGED <<satellites, tle_history, tle_derived, dbFault, procs, passes>>
     /\ UNCHANGED <<varsDerive, varsWeb>>

\* const { rows } = await pool.query(SELECT norad_id, user_id FROM satellites ...)
QueryRows(p) ==
  LET j == job[p]
  IN /\ p \in procs
     /\ j.pc = "query"
     /\ j.variant \in PerObject
     /\ IF dbFault
          THEN /\ job' = [job EXCEPT ![p] = Leave(j, "failed")]
               /\ obs' = obs
          ELSE /\ job' = [job EXCEPT ![p] =
                            IF Len(satellites) = 0 THEN Leave(j, "no_sats")
                            ELSE [j EXCEPT !.rows = satellites, !.idx = 1, !.pc = "fetch"]]
               /\ obs' = [obs EXCEPT ![p].readRows = TRUE]
     /\ dbFault' = FALSE
     /\ UNCHANGED <<satellites, tle_history, tle_derived, procs, passes>>
     /\ UNCHANGED <<varsDerive, varsWeb>>

\* variant: the try/catch around the loop instead of inside it, so that the
\* first failing object ends the pass
FetchStepAborts(p, err, body) ==
  LET j       == job[p]
      pr      == ParseTable[body][j.variant]
      isError == err # "none"
  IN /\ obs' = [obs EXCEPT ![p].fetched = @ \cup {j.idx},
                           ![p].failed = IF isError \/ ~pr.ok THEN @ \cup {j.idx} ELSE @,
                           ![p].err = ErrClass(err)]
     /\ job' = [job EXCEPT ![p] =
                  IF isError THEN Leave(j, "failed")
                  ELSE IF ~pr.ok THEN NextObject(j)
                  ELSE [j EXCEPT !.pc = "ins_hist",
                                 !.cur = [name |-> pr.name, line1 |-> pr.line1,
                                          line2 |-> pr.line2]]]
     /\ UNCHANGED <<satellites, tle_history, tle_derived, dbFault, procs, passes>>
     /\ UNCHANGED <<varsDerive, varsWeb>>

\* await axios.get(url, ...) for the current object and the code after it up
\* to the first INSERT: the request fails, or answers with a body
FetchStep(p, err, body) ==
  LET j       == job[p]
      pr      == ParseTable[body][j.variant]
      isError == err # "none"
  IN /\ obs' = [obs EXCEPT ![p].fetched = @ \cup {j.idx},
                           ![p].failed = IF isError \/ ~pr.ok THEN @ \cup {j.idx} ELSE @,
                           ![p].err = ErrClass(err)]
     /\ job' = [job EXCEPT ![p] =
                  IF isError THEN [j EXCEPT !.pc = "sleep"]       \* catch (err)
                  ELSE IF ~pr.ok THEN NextObject(j)               \* continue
                  ELSE [j EXCEPT !.pc = "ins_hist",
                                 !.cur = [name |-> pr.name, line1 |-> pr.line1,
                                          line2 |-> pr.line2]]]
     /\ UNCHANGED <<satellites, tle_history, tle_derived, dbFault, procs, passes>>
     /\ UNCHANGED <<varsDerive, varsWeb>>

Fetch(p) ==
  /\ p \in procs
  /\ job[p].pc = "fetch"
  /\ job[p].variant \in PerObject
  /\ \/ \E e \in FetchErrors : FetchStep(p, e, EmptyBody)
     \/ \E body \in BodiesFor(job[p].variant, job[p].rows[job[p].idx].norad_id) :
          FetchStep(p, "none", body)

\* variant: pool.query(INSERT INTO tle_history ...) and the statements after
\* it in the iteration not awaited, so that the loop goes on to its next
\* request while they are pending
InsertHistoryNoAwait(p) ==
  LET j == job[p]
      x == ExecInsert(tle_history, HistoryRow(j), ~dbFault)
  IN /\ p \in procs
     /\ j.pc = "ins_hist"
     /\ j.variant \in PerObject
     /\ tle_history' = x.table
     /\ obs' = [obs EXCEPT ![p].wrote = TRUE,
                           ![p].failed = IF x.status = "error" THEN @ \cup {j.idx} ELSE @]
     /\ job' = [job EXCEPT ![p] = NextObject(j)]
     /\ dbFault' = FALSE
     /\ UNCHANGED <<satellites, tle_derived, procs, passes>>
     /\ UNCHANGED <<varsDerive, varsWeb>>

\* await pool.query(INSERT INTO tle_history ... ON CONFLICT DO NOTHING)
InsertHistory(p) ==
  LET j == job[p]
      x == ExecInsert(tle_history, HistoryRow(j), ~dbFault)
  IN /\ p \in procs
     /\ j.pc = "ins_hist"
     /\ j.variant \in PerObject
     /\ tle_history' = x.table
     /\ obs' = [obs EXCEPT ![p].wrote = TRUE,
                           ![p].failed = IF x.status = "error" THEN @ \cup {j.idx} ELSE @]
     /\ job' = [job EXCEPT ![p] =
                  IF x.status = "error" THEN [j EXCEPT !.pc = "sleep"]
                  ELSE [j EXCEPT !.pc = "ins_der"]]
     /\ dbFault' = FALSE
     /\ UNCHANGED <<satellites, tle_derived, procs, passes>>
     /\ UNCHANGED <<varsDerive, varsWeb>>

\* await pool.query(INSERT INTO tle_derived ... ON CONFLICT DO NOTHING);
\* storedCount++, which is only logged
InsertDerived(p) ==
  LET j == job[p]
      x == ExecInsert(tle_derived, DerivedRow(j), ~dbFault)
  IN /\ p \in procs
     /\ j.pc = "ins_der"
     /\ j.variant \in PerObject
     /\ tle_derived' = x.table
     /\ obs' = [obs EXCEPT ![p].wrote = TRUE,
                           ![p].failed = IF x.status = "error" THEN @ \cup {j.idx} ELSE @]
     /\ job' = [job EXCEPT ![p] =
                  IF x.status = "error" THEN [j EXCEPT !.pc = "sleep"]
                  ELSE [j EXCEPT !.pc = "sleep"]]
     /\ dbFault' = FALSE
     /\ UNCHANGED <<satellites, tle_history, procs, passes>>
     /\ UNCHANGED <<varsDerive, varsWeb>>

\* variant: the loop stays at its object after the delay
SleepRepeats(p) ==
  LET j == job[p]
  IN /\ p \in procs
     /\ j.pc = "sleep"
     /\ j.variant \in PerObject
     /\ job' = [job EXCEPT ![p] = [j EXCEPT !.pc = "fetch", !.cur = NoCur]]
     /\ UNCHANGED <<satellites, tle_history, tle_derived, dbFault, procs, obs, passes>>
     /\ UNCHANGED <<varsDerive, varsWeb>>

\* await sleep(1000), then the next iteration
Sleep(p) ==
  LET j == job[p]
  IN /\ p \in procs
     /\ j.pc = "sleep"
     /\ j.variant \in PerObject
     /\ job' = [job EXCEPT ![p] = NextObject(j)]
     /\ UNCHANGED <<satellites, tle_history, tle_derived, dbFault, procs, obs, passes>>
     /\ UNCHANGED <<varsDerive, varsWeb>>

(***************************************************************************)
(* The batched job                                                         *)
(***************************************************************************)
\* if (retryCount < 3) of the catch block
RetryLimit == 3

\* lines[k] of JavaScript over the names of the lines
AtName(lines, k) == IF k < Len(lines) THEN lines[k + 1] ELSE "none"

RECURSIVE UserMapGet(_, _, _)
\* userMap[norad] after rows.forEach(r => userMap[r.norad_id] = r.user_id):
\* the user_id of the last row whose norad_id prints as the key
UserMapGet(rows, k, norad) ==
  IF k = 0 THEN "none"
  ELSE IF IntToStr(rows[k].norad_id) = norad THEN rows[k].user_id
  ELSE UserMapGet(rows, k - 1, norad)

\* one iteration of the while loop up to its checks: the block read at index i
\* and the index after it
Block(lines, i) ==
  IF ~NoradTable[AtName(lines, i)].is1
    THEN [name |-> AtName(lines, i), line1 |-> AtName(lines, i + 1),
          line2 |-> AtName(lines, i + 2), i |-> i + 3]
  ELSE [name |-> "unknown", line1 |-> AtName(lines, i),
        line2 |-> AtName(lines, i + 1), i |-> i + 2]

\* the checks of the iteration that end in `continue`
BlockSkipped(rows, b) ==
  \/ b.line1 = "none"
  \/ b.line2 = "none"
  \/ ~NoradTable[b.line1].is1
  \/ ~NoradTable[b.line2].is2
  \/ UserMapGet(rows, Len(rows), NoradTable[b.line1].str) = "none"
  \/ ~DerivedTable["batch"][b.line1][b.line2].ok

\* variant: the attempt counter of the pass that ended stays on record
WaitingKeepsCount(j, result) ==
  [NoJob EXCEPT !.variant = "batch", !.creds = j.creds, !.pc = "waiting",
                !.cookies = j.cookies, !.result = result, !.retryCount = j.retryCount,
                !.ticks = IF j.cookies THEN j.ticks ELSE 0]

\* the batched job is between two invocations of fetchAndStoreTLEs: the call
\* has returned, the process waits for the next tick, and
\* the next call takes the default retryCount = 0
Waiting(j, result) ==
  [NoJob EXCEPT !.variant = "batch", !.creds = j.creds, !.pc = "waiting",
                !.cookies = j.cookies, !.result = result,
                !.ticks = IF j.cookies THEN j.ticks ELSE 0]

RECURSIVE Advance(_, _, _)
\* the while loop from index i up to its next await: the first INSERT of a
\* block that passes the checks, or the end of the loop (rows and body then
\* stay on record as what the completed pass worked on)
Advance(j, lines, i) ==
  IF i >= Len(lines)
    THEN [Waiting(j, "complete") EXCEPT !.rows = j.rows, !.body = j.body]
  ELSE IF BlockSkipped(j.rows, Block(lines, i)) THEN Advance(j, lines, Block(lines, i).i)
  ELSE [j EXCEPT !.pc = "ins_hist",
                 !.cur = [name |-> Block(lines, i).name, line1 |-> Block(lines, i).line1,
                          line2 |-> Block(lines, i).line2],
                 !.user = UserMapGet(j.rows, Len(j.rows), NoradTable[Block(lines, i).line1].str),
                 !.i = Block(lines, i).i]

\* catch (err): retry after the backoff, or give up
Catch(j) ==
  IF j.retryCount < RetryLimit
    THEN [j EXCEPT !.pc = "backoff", !.cookies = FALSE, !.cur = NoCur, !.user = "none",
                   !.body = EmptyBody, !.i = 0, !.rows = <<>>, !.ticks = 0]
  ELSE Waiting(j, "gave_up")

\* if (!cookies && !(await login())) return;
BatchStart(p, accepted) ==
  LET j == job[p]
      l == loginBatch(j, accepted)
  IN /\ p \in procs
     /\ j.pc = "start"
     /\ j.variant = "batch"
     /\ accepted => j.creds
     /\ IF j.cookies
          THEN /\ job' = [job EXCEPT ![p] = [j EXCEPT !.pc = "query"]]
               /\ obs' = [obs EXCEPT ![p].attempts = @ + 1]
          ELSE /\ job' = [job EXCEPT ![p] =
                            IF l.ret THEN [j EXCEPT !.cookies = l.cookies, !.pc = "query",
                                                    !.ticks = 0]
                            ELSE Waiting([j EXCEPT !.cookies = l.cookies], "no_session")]
               /\ obs' = [obs EXCEPT ![p].attempts = @ + 1,
                                     ![p].logins = @ + (IF l.sent THEN 1 ELSE 0)]
     /\ UNCHANGED <<satellites, tle_history, tle_derived, dbFault, procs, passes>>
     /\ UNCHANGED <<varsDerive, varsWeb>>

\* const { rows } = await pool.query(SELECT norad_id, user_id FROM satellites ...)
BatchQueryRows(p) ==
  LET j == job[p]
  IN /\ p \in procs
     /\ j.pc = "query"
     /\ j.variant = "batch"
     /\ IF dbFault
          THEN /\ job' = [job EXCEPT ![p] = Catch(j)]
               /\ obs' = [obs EXCEPT ![p].other = TRUE]
          ELSE /\ job' = [job EXCEPT ![p] =
                            IF Len(satellites) = 0 THEN Waiting(j, "no_sats")
                            ELSE [j EXCEPT !.rows = satellites, !.pc = "fetch"]]
               /\ obs' = [obs EXCEPT ![p].readRows = TRUE]
     /\ dbFault' = FALSE
     /\ UNCHANGED <<satellites, tle_history, tle_derived, procs, passes>>
     /\ UNCHANGED <<varsDerive, varsWeb>>

\* await axios.get(url, ...) and the loop up to its first INSERT: the request
\* fails (catch), or answers with a body
BatchFetchStep(p, isError, body) ==
  LET j == job[p]
  IN /\ obs' = [obs EXCEPT ![p].fetched = @ \cup {1}]
     /\ job' = [job EXCEPT ![p] =
                  IF isError THEN Catch(j)
                  ELSE Advance([j EXCEPT !.body = body], LinesTable[body], 0)]
     /\ UNCHANGED <<satellites, tle_history, tle_derived, dbFault, procs, passes>>
     /\ UNCHANGED <<varsDerive, varsWeb>>

RowNorads(rows) == {rows[k].norad_id : k \in 1..Len(rows)}

BatchFetch(p) ==
  /\ p \in procs
  /\ job[p].pc = "fetch"
  /\ job[p].variant = "batch"
  /\ \/ \E e \in FetchErrors : BatchFetchStep(p, TRUE, EmptyBody)
     \/ \E body \in BatchBodiesFor(RowNorads(job[p].rows)) : BatchFetchStep(p, FALSE, body)

\* await pool.query(INSERT INTO tle_history ... ON CONFLICT DO NOTHING)
BatchInsertHistory(p) ==
  LET j == job[p]
      x == ExecInsert(tle_history, HistoryRow(j), ~dbFault)
  IN /\ p \in procs
     /\ j.pc = "ins_hist"
     /\ j.variant = "batch"
     /\ tle_history' = x.table
     /\ obs' = [obs EXCEPT ![p].wrote = TRUE,
                           ![p].other = IF x.status = "error" THEN TRUE ELSE @]
     /\ job' = [job EXCEPT ![p] =
                  IF x.status = "error" THEN Catch(j) ELSE [j EXCEPT !.pc = "ins_der"]]
     /\ dbFault' = FALSE
     /\ UNCHANGED <<satellites, tle_derived, procs, passes>>
     /\ UNCHANGED <<varsDerive, varsWeb>>

\* await pool.query(INSERT INTO tle_derived ... ON CONFLICT DO NOTHING);
\* storedCount++ and the loop up to its next INSERT
BatchInsertDerived(p) ==
  LET j == job[p]
      x == ExecInsert(tle_derived, DerivedRow(j), ~dbFault)
  IN /\ p \in procs
     /\ j.pc = "ins_der"
     /\ j.variant = "batch"
     /\ tle_derived' = x.table
     /\ obs' = [obs EXCEPT ![p].wrote = TRUE,
                           ![p].other = IF x.status = "error" THEN TRUE ELSE @]
     /\ job' = [job EXCEPT ![p] =
                  IF x.status = "error" THEN Catch(j)
                  ELSE Advance([j EXCEPT !.cur = NoCur, !.user = "none"],
                               LinesTable[j.body], j.i)]
     /\ dbFault' = FALSE
     /\ UNCHANGED <<satellites, tle_history, procs, passes>>
     /\ UNCHANGED <<varsDerive, varsWeb>>

\* await sleep(30000); return fetchAndStoreTLEs(retryCount + 1)
BatchBackoff(p) ==
  LET j == job[p]
  IN /\ p \in procs
     /\ j.pc = "backoff"
     /\ j.variant = "batch"
     /\ job' = [job EXCEPT ![p] = [j EXCEPT !.pc = "start", !.retryCount = @ + 1]]
     /\ obs' = [obs EXCEPT ![p].readRows = FALSE, ![p].fetched = {}, ![p].failed = {},
                           ![p].wrote = FALSE]
     /\ UNCHANGED <<satellites, tle_history, tle_derived, dbFault, procs, passes>>
     /\ UNCHANGED <<varsDerive, varsWeb>>

\* the setInterval callback of runForever, 12 hours later: fetchAndStoreTLEs()
Tick(p) ==
  LET j == job[p]
  IN /\ p \in procs
     /\ j.pc = "waiting"
     /\ j.variant = "batch"
     /\ passes < PassLimit
     /\ passes' = passes + 1
     /\ job' = [job EXCEPT ![p] =
                  [j EXCEPT !.pc = "start", !.result = "running", !.last = j.result,
                            !.ticks = IF j.cookies THEN @ + 1 ELSE 0]]
     /\ obs' = [obs EXCEPT ![p] = NewObs]
     /\ UNCHANGED <<satellites, tle_history, tle_derived, dbFault, procs>>
     /\ UNCHANGED <<varsDerive, varsWeb>>

(***************************************************************************)
(* The web server's Space-Track session (index.js).  A request handler is  *)
(* at "idle", at one of its awaits ("select_wait", "login_wait",            *)
(* "fetch_wait", "store_wait") or "done"; handlers interleave at the       *)
(* awaits only.                                                            *)
(***************************************************************************)
\* Date.now() - lastLogin > 20 * 60 * 1000
SessionTtl == 20 * 60 * 1000

\* rateLimitUntil = Date.now() + 60 * 1000
CooldownMs == 60 * 1000

\* setInterval(..., 12 * 60 * 60 * 1000) of runForever
TickInterval == 12 * 60 * 60 * 1000

MaxAdvances == 2

\* the steps the clock advances by: they reach the cooldown and the TTL exactly
\* and pass them by one millisecond
Jumps == {1, CooldownMs - 1, SessionTtl}

\* variant: the catch of loginToSpaceTrack without cookies = null
loginKeepsSession(w, accepted, t) ==
  IF accepted THEN [w EXCEPT !.cookies = TRUE, !.lastLogin = t, !.rateLimitUntil = 0]
  ELSE w

\* loginToSpaceTrack after its request was answered
loginToSpaceTrack(w, accepted, t) ==
  IF accepted THEN [w EXCEPT !.cookies = TRUE, !.lastLogin = t, !.rateLimitUntil = 0]
  ELSE [w EXCEPT !.cookies = FALSE]

\* variant: >= in place of >
NeedsLoginAtTtl(w, t) == ~w.cookies \/ t - w.lastLogin >= SessionTtl

\* the condition of ensureSession for a login
NeedsLogin(w, t) == ~w.cookies \/ t - w.lastLogin > SessionTtl

\* The handler from the return of ensureSession (return !!cookies) to its next
\* await or its answer: /api/public/iss sends its query as soon as a session
\* is held; fetchFullSatelliteData (/add-satellite, /api/satellite/:norad_id)
\* returns null without a session or while rateLimitUntil > Date.now().
AfterSession(r, w, t) ==
  IF ~w.cookies
    THEN [r EXCEPT !.pc = "done", !.at = 0, !.session = "no",
                   !.status = IF r.route = "iss" THEN "500" ELSE "404"]
  ELSE IF r.route \in {"add", "sat"} /\ w.rateLimitUntil > t
    THEN [r EXCEPT !.pc = "done", !.at = 0, !.session = "yes", !.status = "404"]
  ELSE [r EXCEPT !.pc = "fetch_wait", !.session = "yes"]

\* a request arrives: the handler runs up to its first await, which in
\* /api/satellite/:norad_id is the SELECT of the caller's row.  ensureSession
\* calls loginToSpaceTrack when no fresh session is held; that sends the login
\* request, or returns false at once when the credentials are not configured.
Begin(h, route) ==
  /\ h \in hands
  /\ req[h].pc \in {"idle", "done"}
  /\ passes < PassLimit
  /\ passes' = passes + 1
  /\ req' = [req EXCEPT ![h] =
               IF route = "sat"
                 THEN [NoReq EXCEPT !.route = route, !.pc = "select_wait",
                                    !.n = passes + 1]
               ELSE IF NeedsLogin(web, now) /\ web.creds
                 THEN [NoReq EXCEPT !.route = route, !.pc = "login_wait",
                                    !.n = passes + 1, !.at = now,
                                    !.login = "pending", !.logins = 1]
               ELSE AfterSession([NoReq EXCEPT !.route = route, !.n = passes + 1,
                                               !.at = now,
                                               !.login = IF NeedsLogin(web, now)
                                                           THEN "no_credentials" ELSE "none"],
                                 web, now)]
  /\ UNCHANGED <<web, now, hands, last429, rejected401, snapshot, advances>>
  /\ UNCHANGED <<satellites, tle_history, tle_derived, dbFault, procs, job, obs>>
  /\ UNCHANGED varsDerive

\* the login request is answered: set-cookie, or an error
LoginResponse(h, accepted) ==
  /\ h \in hands
  /\ req[h].pc = "login_wait"
  /\ web' = loginToSpaceTrack(web, accepted, now)
  /\ req' = [req EXCEPT ![h] =
               AfterSession([req[h] EXCEPT !.login = IF accepted THEN "accepted"
                                                          ELSE "rejected"],
                            loginToSpaceTrack(web, accepted, now), now)]
  /\ rejected401' = FALSE
  /\ UNCHANGED <<now, hands, last429, snapshot, advances>>
  /\ UNCHANGED varsJobs
  /\ UNCHANGED varsDerive

FetchOutcomes == {"data", "empty", "h429", "h401", "error"}

\* the status the handler answers with after its upstream query: /add-satellite
\* answers 404 when fetchFullSatelliteData returns null and otherwise throws at
\* its call of calculateDerived, which index.js neither defines nor imports;
\* /api/public/iss answers 200, 404 for fewer than two lines, 500 in its catch
FetchStatus(route, out) ==
  IF route = "add" THEN (IF out = "data" THEN "ReferenceError" ELSE "404")
  ELSE IF route = "sat" THEN "404"
  ELSE (IF out = "data" THEN "200" ELSE IF out = "empty" THEN "404" ELSE "500")

\* the upstream query is answered; /api/satellite/:norad_id goes on to its
\* INSERT when fetchFullSatelliteData returns an object
FetchResponse(h, out) ==
  /\ h \in hands
  /\ req[h].pc = "fetch_wait"
  /\ web' = IF req[h].route \in {"add", "sat"} /\ out = "h429"
              THEN [web EXCEPT !.rateLimitUntil = now + CooldownMs]
            ELSE web
  /\ last429' = IF out = "h429" THEN now ELSE last429
  /\ rejected401' = IF out = "h401" THEN TRUE ELSE rejected401
  /\ req' = [req EXCEPT ![h] =
               IF req[h].route = "sat" /\ out = "data"
                 THEN [req[h] EXCEPT !.pc = "store_wait"]
               ELSE [req[h] EXCEPT !.pc = "done", !.at = 0,
                                   !.status = FetchStatus(req[h].route, out)]]
  /\ UNCHANGED <<now, hands, snapshot, advances>>
  /\ UNCHANGED varsJobs
  /\ UNCHANGED varsDerive

\* the object and the caller of the requests of /api/satellite/:norad_id
SatKey == <<25544, "u1">>

\* what fetchFullSatelliteData returns of the upstream's answer: tle_line1,
\* tle_line2
Fresh == [tle_line1 |-> "l1_iss", tle_line2 |-> "l2_iss"]

\* the SELECT of /api/satellite/:norad_id is answered: the query rejects (the
\* catch answers 500), finds the caller's row (res.json(sat)) or finds none,
\* and then the handler calls fetchFullSatelliteData, which starts with
\* ensureSession
SelectResponse(h, ok) ==
  /\ h \in hands
  /\ req[h].pc = "select_wait"
  /\ req' = [req EXCEPT ![h] =
               IF ~ok THEN [req[h] EXCEPT !.pc = "done", !.status = "500"]
               ELSE IF SatKey \in DOMAIN snapshot
                 THEN [req[h] EXCEPT !.pc = "done", !.status = "200"]
               ELSE IF NeedsLogin(web, now) /\ web.creds
                 THEN [req[h] EXCEPT !.pc = "login_wait", !.at = now,
                                     !.login = "pending", !.logins = 1]
               ELSE AfterSession([req[h] EXCEPT !.at = now,
                                                !.login = IF NeedsLogin(web, now)
                                                            THEN "no_credentials"
                                                          ELSE "none"],
                                 web, now)]
  /\ UNCHANGED <<web, now, hands, last429, rejected401, snapshot, advances>>
  /\ UNCHANGED varsJobs
  /\ UNCHANGED varsDerive

\* INSERT INTO satellites ... ON CONFLICT (norad_id, user_id) DO UPDATE SET ...
Upsert(table, key, row) ==
  [k \in DOMAIN table \cup {key} |-> IF k = key THEN row ELSE table[k]]

\* the INSERT of /api/satellite/:norad_id is answered: the row is stored and
\* returned (res.json(sat)), or the query rejects and the catch answers 500
StoreResponse(h, ok) ==
  /\ h \in hands
  /\ req[h].pc = "store_wait"
  /\ snapshot' = IF ok THEN Upsert(snapshot, SatKey, Fresh) ELSE snapshot
  /\ satellites' = IF ok /\ SatKey \notin PairsOf(satellites)
                     THEN Append(satellites, [norad_id |-> SatKey[1], user_id |-> SatKey[2]])
                   ELSE satellites
  /\ req' = [req EXCEPT ![h] = [req[h] EXCEPT !.pc = "done", !.at = 0,
                                              !.status = IF ok THEN "200" ELSE "500"]]
  /\ UNCHANGED <<web, now, hands, last429, rejected401, advances>>
  /\ UNCHANGED <<tle_history, tle_derived, dbFault, procs, job, obs, passes>>
  /\ UNCHANGED varsDerive

\* time passes.  The server reads the clock only to compare it with lastLogin
\* and rateLimitUntil, so the model lets it advance once one of them is set.
AdvanceClock(d) ==
  /\ advances < MaxAdvances
  /\ web.cookies \/ web.rateLimitUntil > 0
  /\ advances' = advances + 1
  /\ now' = now + d
  /\ UNCHANGED <<web, req, hands, last429, rejected401, snapshot>>
  /\ UNCHANGED varsJobs
  /\ UNCHANGED varsDerive

NextWeb ==
  \/ \E h \in Handlers :
       \/ \E route \in {"iss", "add"} : Begin(h, route)
       \/ \E a \in BOOLEAN : LoginResponse(h, a)
       \/ \E out \in FetchOutcomes : FetchResponse(h, out)
  \/ \E d \in Jumps : AdvanceClock(d)

\* the web server alone, two request handlers
InitWebOnly == JobsIdle /\ DeriveIdle /\ InitWeb /\ hands = Handlers

SpecWeb == InitWebOnly /\ [][NextWeb]_vars

\* the web server serving requests of /api/satellite/:norad_id, two request
\* handlers
NextSat ==
  \/ \E h \in Handlers :
       \/ Begin(h, "sat")
       \/ \E ok \in BOOLEAN : SelectResponse(h, ok)
       \/ \E a \in BOOLEAN : LoginResponse(h, a)
       \/ \E out \in FetchOutcomes : FetchResponse(h, out)
       \/ \E ok \in BOOLEAN : StoreResponse(h, ok)
  \/ \E d \in Jumps : AdvanceClock(d)

SpecSat == InitWebOnly /\ [][NextSat]_vars

Next ==
  \/ DbFails
  \/ \E p \in Procs :
       \/ \E v \in Variants, c \in BOOLEAN : StartProcess(p, v, c)
       \/ \E a \in BOOLEAN : PassStart(p, a)
       \/ QueryRows(p)
       \/ Fetch(p)
       \/ InsertHistory(p)
       \/ InsertDerived(p)
       \/ Sleep(p)
       \/ \E a \in BOOLEAN : BatchStart(p, a)
       \/ BatchQueryRows(p)
       \/ BatchFetch(p)
       \/ BatchInsertHistory(p)
       \/ BatchInsertDerived(p)
       \/ BatchBackoff(p)
       \/ Tick(p)
  \/ \E h \in Handlers :
       \/ Begin(h, "add")
       \/ \E a \in BOOLEAN : LoginResponse(h, a)
       \/ \E out \in FetchOutcomes : FetchResponse(h, out)

\* a step of the pass of p: an await of the pass returns (a request is
\* answered or times out, a statement of the database returns, a sleep ends)
\* and the pass runs to its next await
PassStep(p) ==
  \/ \E a \in BOOLEAN : PassStart(p, a)
  \/ QueryRows(p)
  \/ Fetch(p)
  \/ InsertHistory(p)
  \/ InsertDerived(p)
  \/ Sleep(p)
  \/ \E a \in BOOLEAN : BatchStart(p, a)
  \/ BatchQueryRows(p)
  \/ BatchFetch(p)
  \/ BatchInsertHistory(p)
  \/ BatchInsertDerived(p)
  \/ BatchBackoff(p)

\* the job processes without the web server
NextJobs ==
  \/ DbFails
  \/ \E p \in Procs :
       \/ \E v \in Variants, c \in BOOLEAN : StartProcess(p, v, c)
       \/ PassStep(p)
       \/ Tick(p)

InitLive == InitJobs /\ procs = {1} /\ WebIdle

\* every await of a pass returns in the end
SpecLive == InitLive /\ [][NextJobs]_vars /\ WF_vars(PassStep(1))

\* one job process at a time
Init == InitJobs /\ procs = {1} /\ InitWeb /\ hands = {1}

Spec == Init /\ [][Next]_vars

\* two job processes side by side
InitOverlap ==
  InitJobs /\ Len(satellites) = 1 /\ procs = {1, 2} /\ InitWeb /\ hands = {1}

SpecOverlap == InitOverlap /\ [][Next]_vars

\* one job process over one tracked object beside the web server, whose
\* session ages
InitLogin ==
  InitJobs /\ Len(satellites) = 1 /\ procs = {1} /\ InitWeb /\ hands = {1}

\* the clock passes the freshness TTL in one step
NextLogin == Next \/ AdvanceClock(SessionTtl + 1)

SpecLogin == InitLogin /\ [][NextLogin]_vars

(***************************************************************************)
(* The derivation copies applied to sample lines.                          *)
(***************************************************************************)
Impls == {"populateDerived", "cron", "batch", "script"}

DeriveBy(impl, line1, line2) ==
  CASE impl = "populateDerived" -> populateDerived(line1, line2)
    [] impl = "cron"            -> calculateDerivedCron(line1, line2)
    [] impl = "batch"           -> calculateDerivedBatch(line1, line2)
    [] impl = "script"          -> calculateDerivedScript(line1, line2)

\* the job state while the derivation copies are checked on their own
InitDerive ==
  /\ JobsIdle
  /\ WebIdle
  /\ dline1 \in Line1Samples
  /\ dline2 \in Line2Samples
  /\ dimpl = "none"
  /\ dres = Absent
  /\ EpochIdle
  /\ RegimeIdle
  /\ OrderIdle

Derive(impl) ==
  /\ dimpl = "none"
  /\ dimpl' = impl
  /\ dres' = DeriveBy(impl, Text(dline1), Text(dline2))
  /\ UNCHANGED <<dline1, dline2, eyy, epath, eres, rdata, rres, hostZone, mdays, mres,
               fill, pairIndex, telemetry, call>>
  /\ UNCHANGED <<varsJobs, varsWeb>>

NextDerive == \E impl \in Impls : Derive(impl)

SpecDerive == InitDerive /\ [][NextDerive]_vars

(***************************************************************************)
(* The epoch of line 1 on each path that resolves one, for every two-digit *)
(* year.                                                                   *)
(***************************************************************************)
YearTokens == 0..99

DigitChar(d) == SubSeq(<<"0", "1", "2", "3", "4", "5", "6", "7", "8", "9">>, d + 1, d + 1)

\* columns 19-20 of line 1 for the year yy
YearText(yy) == DigitChar(yy \div 10) \o DigitChar(yy % 10)

EpochPaths == {"cron", "oneshot", "batch", "add"}

EpochBy(path, line1) ==
  IF path = "add" THEN EpochAdd(line1) ELSE EpochOf(path, line1)

InitEpoch ==
  /\ JobsIdle
  /\ WebIdle
  /\ dline1 = "none"
  /\ dline2 = "none"
  /\ dimpl = "none"
  /\ dres = Absent
  /\ eyy \in YearTokens
  /\ epath = "none"
  /\ eres = InvalidDate
  /\ RegimeIdle
  /\ OrderIdle

ResolveEpoch(path) ==
  /\ epath = "none"
  /\ epath' = path
  /\ eres' = EpochBy(path, Line1(CatIss, YearText(eyy), Day123, BstarPos))
  /\ UNCHANGED <<dline1, dline2, dimpl, dres, eyy, rdata, rres, hostZone, mdays, mres,
               fill, pairIndex, telemetry, call>>
  /\ UNCHANGED <<varsJobs, varsWeb>>

NextEpoch == \E path \in EpochPaths : ResolveEpoch(path)

SpecEpoch == InitEpoch /\ [][NextEpoch]_vars

(***************************************************************************)
(* calculateDerivedParams of the web server (index.js) on sample objects.  *)
(* Lengths are in metres, mean motions in hundredths of a revolution per   *)
(* day.                                                                    *)
(***************************************************************************)
\* Math.cbrt(398600.4418 * Math.pow(periodSec / (2 * Math.PI), 2)) with
\* periodSec = 86400 / meanMotion, for the mean motions of the samples
KeplerAxis(meanMotion) ==
  CASE meanMotion = 100  -> 42241096
    [] meanMotion = 105  -> 40889234
    [] meanMotion = 200  -> 26610223
    [] meanMotion = 1500 -> 6945033

\* const altitude = semiMajorAxis - 6378.137, with semiMajorAxis =
\* data.semi_major_axis || Math.cbrt(...)
Altitude(data) ==
  (IF data.semi_major_axis # 0 THEN data.semi_major_axis
   ELSE KeplerAxis(data.mean_motion)) - 6378137

\* the if-chain of calculateDerivedParams
OrbitType(altitude) ==
  IF altitude < 2000000 THEN "LEO"
  ELSE IF altitude < 35786000 THEN "MEO"
  ELSE IF Max(altitude - 35786000, 35786000 - altitude) <= 2000000 THEN "GEO"
  ELSE "HEO"

\* altitude: Math.round(altitude), in kilometres
calculateDerivedParams(data) ==
  IF data.mean_motion = 0 \/ data.mean_motion <= 0
    THEN [altitude |-> 0, orbit_type |-> "UNKNOWN"]
  ELSE [altitude |-> (Altitude(data) + 500) \div 1000,
        orbit_type |-> OrbitType(Altitude(data))]

\* mean_motion: parseFloat(sat.MEAN_MOTION) || 0 of the upstream's objects
MeanMotionSamples == {0, -100, 100, 105, 200, 1500}

\* altitudes on both sides of each threshold, one metre off it
AltitudeSamples ==
  {500000, 1999999, 2000001, 20000000, 33785999, 33786001, 34000000,
   35785999, 35786001, 37785999, 37786001, 60000000}

\* semi_major_axis: parseFloat(sat.SEMIMAJOR_AXIS) || 0
AxisSamples == {0} \cup {a + 6378137 : a \in AltitudeSamples}

InitRegime ==
  /\ JobsIdle
  /\ WebIdle
  /\ dline1 = "none"
  /\ dline2 = "none"
  /\ dimpl = "none"
  /\ dres = Absent
  /\ EpochIdle
  /\ OrderIdle
  /\ rdata \in [mean_motion : MeanMotionSamples, semi_major_axis : AxisSamples]
  /\ rres = NoParams

Classify ==
  /\ rres = NoParams
  /\ rres' = calculateDerivedParams(rdata)
  /\ UNCHANGED <<dline1, dline2, dimpl, dres, eyy, epath, eres, rdata, hostZone, mdays, mres,
               fill, pairIndex, telemetry, call>>
  /\ UNCHANGED <<varsJobs, varsWeb>>

NextRegime == Classify

SpecRegime == InitRegime /\ [][NextRegime]_vars

(***************************************************************************)
(* The order of the epochs resolved for two days of one year.  The paths   *)
(* set the day with setUTCDate and then add the fraction of the day with   *)
(* setSeconds or setMilliseconds, which work on the LOCAL time of the      *)
(* host: the time value is turned into local time, the field is set, and   *)
(* the local time is turned back with the offset that holds at that local  *)
(* time (the offset before the transition for a local time the transition *)
(* skips or repeats).  EpochBy is the result on a host whose zone has no   *)
(* transition; EpochOn is the result in a given zone.                      *)
(***************************************************************************)
DayMs == 24 * 60 * 60 * 1000

HourMs == 60 * 60 * 1000

HostZones == {"UTC", "Europe/Berlin"}

\* a day of the year and the milliseconds since its start (UTC), with the
\* milliseconds inside the day
Instant(day, ms) == [day |-> day + (ms \div DayMs), ms |-> ms % DayMs]

Earlier(a, b) == a.day < b.day \/ (a.day = b.day /\ a.ms < b.ms)

\* offsets in milliseconds before and after the transition of the year 2024
\* and its instant: 31 March, day 91, 01:00 UTC
Zone(z) ==
  IF z = "UTC" THEN [before |-> 0, after |-> 0, at |-> Instant(1, 0)]
  ELSE [before |-> HourMs, after |-> 2 * HourMs, at |-> Instant(91, HourMs)]

\* LocalTime(t): the offset at the instant t
OffsetAt(zone, t) == IF Earlier(t, zone.at) THEN zone.before ELSE zone.after

\* UTC(w): the offset for the local time w
OffsetOfLocal(zone, w) ==
  LET later == IF zone.before > zone.after THEN zone.before ELSE zone.after
  IN IF Earlier(w, Instant(zone.at.day, zone.at.ms + later)) THEN zone.before
     ELSE zone.after

\* epochDate.setSeconds(epochDate.getSeconds() + ...) and setMilliseconds
\* likewise, on the date at 00:00 UTC of day e.day, to which e.ms is added
SetLocal(e, zone) ==
  LET tv == Instant(e.day, 0)
      w  == Instant(e.day, OffsetAt(zone, tv) + e.ms)
      u  == Instant(w.day, w.ms - OffsetOfLocal(zone, w))
  IN [valid |-> TRUE, year |-> e.year, day |-> u.day, ms |-> u.ms]

EpochOn(z, path, line1) ==
  LET e == EpochBy(path, line1)
  IN IF e.valid THEN SetLocal(e, Zone(z)) ELSE e

Day091a == <<"0", "9", "1", ".", "0", "0", "0", "0", "0", "0", "0", "0">>

Day091b == <<"0", "9", "1", ".", "0", "6", "2", "5", "0", "0", "0", "0">>

Day091c == <<"0", "9", "1", ".", "1", "0", "0", "0", "0", "0", "0", "0">>

Day091d == <<"0", "9", "1", ".", "5", "0", "0", "0", "0", "0", "0", "0">>

\* a fraction of a day that is no whole number of seconds: 43200.0864 s
Day091e == <<"0", "9", "1", ".", "5", "0", "0", "0", "0", "1", "0", "0">>

DaySamples == {Day091a, Day091b, Day091c, Day091d, Day091e, Day123, Day124}

\* x <= y for two finite numbers that are not negative
NumLeq(x, y) ==
  LET low == IF x.e < y.e THEN x.e ELSE y.e
  IN x.m * Pow10(x.e - low) <= y.m * Pow10(y.e - low)

EpochPair(z, path, days) ==
  <<EpochOn(z, path, Line1(CatIss, Yy24, days[1], BstarPos)),
    EpochOn(z, path, Line1(CatIss, Yy24, days[2], BstarPos))>>

InitOrder ==
  /\ JobsIdle
  /\ WebIdle
  /\ dline1 = "none"
  /\ dline2 = "none"
  /\ dimpl = "none"
  /\ dres = Absent
  /\ EpochIdle
  /\ RegimeIdle
  /\ hostZone \in HostZones
  /\ mdays \in {d \in DaySamples \X DaySamples : NumLeq(parseFloat(d[1]), parseFloat(d[2]))}
  /\ mres = <<>>
  /\ fill = NoFill
  /\ pairIndex = FALSE
  /\ telemetry = {}
  /\ call = <<>>

ResolveBoth(path) ==
  /\ mres = <<>>
  /\ mdays # <<>>
  /\ epath' = path
  /\ mres' = EpochPair(hostZone, path, mdays)
  /\ UNCHANGED <<dline1, dline2, dimpl, dres, eyy, eres, rdata, rres, hostZone, mdays,
               fill, pairIndex, telemetry, call>>
  /\ UNCHANGED <<varsJobs, varsWeb>>

NextOrder == \E path \in EpochPaths : ResolveBoth(path)

SpecOrder == InitOrder /\ [][NextOrder]_vars

(***************************************************************************)
(* The backfill script (scripts/populatedDerived.js): it reads tle_history *)
(* and writes one row of tle_derived per history row.  The tables are      *)
(* created outside this repository: tle_derived has the unique index on    *)
(* (norad_id, epoch, user_id) the jobs rely on, and pairIndex says whether *)
(* it has one on (norad_id, epoch) as well.                                *)
(***************************************************************************)
\* epoch e1 is before epoch e2
EpochBefore(e1, e2) ==
  \/ e1.year < e2.year
  \/ e1.year = e2.year /\ e1.day < e2.day
  \/ e1.year = e2.year /\ e1.day = e2.day /\ e1.ms < e2.ms

ScriptTable ==
  [a \in TextNames |-> [b \in TextNames |-> calculateDerivedScript(Text(a), Text(b))]]

Owners == {"u1", "u2"}

\* rows of tle_history as the batched job stores them
HistorySample(u, l1, l2) ==
  [norad_id |-> 25544, name |-> "unknown", tle_line1 |-> l1, tle_line2 |-> l2,
   epoch |-> EpochTable["batch"][l1], user_id |-> u]

\* the row of tle_derived the batched job stores beside a history row
DerivedBeside(h) ==
  [norad_id |-> h.norad_id, name |-> h.name, epoch |-> h.epoch,
   d |-> DerivedTable["batch"][h.tle_line1][h.tle_line2], user_id |-> h.user_id]

HistorySamples ==
  {HistorySample(u, l1, l2) :
     u \in Owners, l1 \in {"l1_iss", "l1_iss_d124"}, l2 \in {"l2_iss", "l2_iss_mmneg"}}

TableOf(rows) == [r \in rows |-> 1]

\* no two rows share the given key
UniqueBy(rows, Key(_)) == \A r, q \in rows : Key(r) = Key(q) => r = q

PairKey(r) == <<r.norad_id, r.epoch>>

InitBackfill ==
  /\ satellites = <<>>
  /\ dbFault = FALSE
  /\ procs = {}
  /\ job = <<>>
  /\ obs = <<>>
  /\ passes = 0
  /\ WebIdle
  /\ dline1 = "none" /\ dline2 = "none" /\ dimpl = "none" /\ dres = Absent
  /\ EpochIdle
  /\ RegimeIdle
  /\ hostZone = "UTC" /\ mdays = <<>> /\ mres = <<>>
  /\ pairIndex \in BOOLEAN
  /\ telemetry = {}
  /\ call = <<>>
  /\ \E hs \in SUBSET HistorySamples :
       /\ UniqueBy(hs, RowKey)
       /\ tle_history = TableOf(hs)
       /\ \E ds \in SUBSET {DerivedBeside(h) : h \in hs} :
            /\ pairIndex => UniqueBy(ds, PairKey)
            /\ tle_derived = TableOf(ds)
  /\ fill = [NoFill EXCEPT !.pc = "select"]

\* const { rows } = await pool.query(SELECT id, norad_id, name, tle_line1,
\* tle_line2, epoch FROM tle_history ORDER BY epoch)
BackfillSelect ==
  /\ fill.pc = "select"
  /\ fill' = [fill EXCEPT !.pc = "loop", !.todo = DOMAIN tle_history]
  /\ UNCHANGED <<varsJobs, varsWeb>>
  /\ UNCHANGED <<dline1, dline2, dimpl, dres, eyy, epath, eres, rdata, rres, hostZone,
                 mdays, mres, pairIndex, telemetry, call>>

\* INSERT INTO tle_derived (norad_id, name, epoch, ...) ... ON CONFLICT
\* (norad_id, epoch) DO UPDATE SET name = EXCLUDED.name, ...: the statement
\* names no user_id, so a new row has none ("null") and a row in conflict
\* keeps the one it has
UpsertByPair(table, row) ==
  LET hit == {q \in DOMAIN table : PairKey(q) = PairKey(row)}
      set == {[q EXCEPT !.name = row.name, !.d = row.d] : q \in hit}
  IN IF hit = {} THEN AddRow(table, [row EXCEPT !.user_id = "null"])
     ELSE TableOf((DOMAIN table \ hit) \cup set)

\* one iteration of the for loop over the rows, in the order of their epochs:
\* `if (!derived) continue`, else the INSERT; PostgreSQL rejects the statement
\* when no unique index matches its conflict target, and the rejection ends
\* the script by populateDerived().catch(... process.exit(1))
BackfillRow(r) ==
  LET derived == ScriptTable[r.tle_line1][r.tle_line2]
      row     == [norad_id |-> r.norad_id, name |-> r.name, epoch |-> r.epoch,
                  d |-> derived, user_id |-> "null"]
  IN /\ fill.pc = "loop"
     /\ r \in fill.todo
     /\ \A q \in fill.todo : ~EpochBefore(q.epoch, r.epoch)
     /\ IF ~derived.ok
          THEN /\ fill' = [fill EXCEPT !.todo = @ \ {r}, !.last = {r}]
               /\ tle_derived' = tle_derived
        ELSE IF ~pairIndex
          THEN /\ fill' = [fill EXCEPT !.pc = "exited", !.todo = {}, !.last = {r},
                                       !.exit = "1"]
               /\ tle_derived' = tle_derived
        ELSE /\ fill' = [fill EXCEPT !.todo = @ \ {r}, !.last = {r}]
             /\ tle_derived' = UpsertByPair(tle_derived, row)
     /\ UNCHANGED <<satellites, tle_history, dbFault, procs, job, obs, passes>>
     /\ UNCHANGED varsWeb
     /\ UNCHANGED <<dline1, dline2, dimpl, dres, eyy, epath, eres, rdata, rres, hostZone,
                    mdays, mres, pairIndex, telemetry, call>>

\* the loop is through: process.exit(0)
BackfillExit ==
  /\ fill.pc = "loop"
  /\ fill.todo = {}
  /\ fill' = [fill EXCEPT !.pc = "exited", !.exit = "0"]
  /\ UNCHANGED <<varsJobs, varsWeb>>
  /\ UNCHANGED <<dline1, dline2, dimpl, dres, eyy, epath, eres, rdata, rres, hostZone,
                 mdays, mres, pairIndex, telemetry, call>>

NextBackfill ==
  \/ BackfillSelect
  \/ \E r \in HistorySamples : BackfillRow(r)
  \/ BackfillExit

SpecBackfill == InitBackfill /\ [][NextBackfill]_vars

(***************************************************************************)
(* The routes of the web server that read and change a user's rows         *)
(* (index.js): GET /api/satellite/:norad_id, GET /api/tle_derived/:noradId, *)
(* GET /api/telemetry/:norad_id, DELETE /delete-satellite/:norad_id and    *)
(* PATCH /api/satellite/:norad_id/rename, behind requireAuth.  The table   *)
(* satellites is snapshot (per (norad_id, user_id) the columns name,       *)
(* tle_line1, tle_line2) with satellites listing its keys.                 *)
(***************************************************************************)
Routes == {"sat", "derived", "telemetry", "delete", "rename"}

NoCall ==
  [user |-> "none", route |-> "none", norad |-> 0, name |-> "none", pc |-> "idle",
   status |-> "none", rows |-> {}]

\* a row of satellites as a query returns it
SatRow(k, cols) ==
  [norad_id |-> k[1], user_id |-> k[2], name |-> cols.name,
   tle_line1 |-> cols.tle_line1, tle_line2 |-> cols.tle_line2]

\* variant: the SELECT of tle_derived without AND user_id = $2
SelectDerivedOfAll(rows, n, u) == {r \in rows : r.norad_id = n}

\* SELECT ... FROM tle_derived WHERE norad_id = $1 AND user_id = $2
SelectDerived(rows, n, u) == {r \in rows : r.norad_id = n /\ r.user_id = u}

\* SELECT * FROM telemetry WHERE norad_id::text = $1 AND user_id = $2
SelectTelemetry(rows, n, u) == {r \in rows : r.norad_id = n /\ r.user_id = u}

\* SELECT * FROM satellites WHERE norad_id::text = $1 AND user_id = $2
SelectSatellite(sats, n, u) ==
  {SatRow(k, sats[k]) : k \in {x \in DOMAIN sats : x[1] = n /\ x[2] = u}}

\* DELETE FROM satellites WHERE norad_id::text = $1 AND user_id = $2
DeleteSatellite(sats, n, u) ==
  [k \in {x \in DOMAIN sats : ~(x[1] = n /\ x[2] = u)} |-> sats[k]]

\* UPDATE satellites SET name = $1 WHERE norad_id::text = $2 AND user_id = $3
RenameSatellite(sats, name, n, u) ==
  [k \in DOMAIN sats |->
     IF k[1] = n /\ k[2] = u THEN [sats[k] EXCEPT !.name = name] ELSE sats[k]]

\* A handler up to the answer of its first query: the status and the rows it
\* answers with, the table satellites after it, and where the handler is
\* then.  ok: the database accepts the query (the catch answers 500 if not).
Query(ok, route, u, n, name, sats, derived, tel) ==
  LET mine    == SelectSatellite(sats, n, u)
      trimmed == Trim(Text(name))
      done(status, rows, tab) ==
        [status |-> status, rows |-> rows, sats |-> tab, pc |-> "done"]
  IN IF route = "rename" /\ trimmed = <<>> THEN done("400", {}, sats)
     ELSE IF ~ok THEN done("500", {}, sats)
     ELSE CASE route = "derived"   -> done("200", SelectDerived(derived, n, u), sats)
            [] route = "telemetry" -> done("200", SelectTelemetry(tel, n, u), sats)
            [] route = "delete"    -> done("200", {}, DeleteSatellite(sats, n, u))
            [] route = "rename"    ->
                 IF mine = {} THEN done("404", {}, sats)
                 ELSE LET tab == RenameSatellite(sats, NameOf(trimmed), n, u)
                      IN done("200", SelectSatellite(tab, n, u), tab)
            [] route = "sat"       ->
                 IF mine # {} THEN done("200", mine, sats)
                 ELSE [status |-> "none", rows |-> {}, sats |-> sats, pc |-> "fetch_wait"]

RequestNorads == {25544}

RenameInputs == {"none", "unknown"}

\* the keys of tab in the order of rows, then the new ones
KeysInOrder(rows, tab) ==
  LET kept == SelectSeq(rows, LAMBDA r : <<r.norad_id, r.user_id>> \in DOMAIN tab)
      new  == DOMAIN tab \ PairsOf(rows)
  IN IF new = {} THEN kept
     ELSE LET k == CHOOSE x \in new : TRUE
          IN Append(kept, [norad_id |-> k[1], user_id |-> k[2]])

InitTenant ==
  /\ satellites \in TrackedConfigs
  /\ snapshot = [pr \in PairsOf(satellites) |->
                   [name |-> "n_iss", tle_line1 |-> "l1_iss", tle_line2 |-> "l2_iss"]]
  /\ tle_history = TableOf({HistorySample(u, "l1_iss", "l2_iss") : u \in Owners})
  /\ tle_derived = TableOf({DerivedBeside(HistorySample(u, "l1_iss", "l2_iss")) : u \in Owners})
  /\ telemetry = {[norad_id |-> 25544, user_id |-> u, timestamp |-> 1] : u \in Owners}
  /\ call = [h \in Handlers |-> NoCall]
  /\ dbFault = FALSE /\ procs = {} /\ job = <<>> /\ obs = <<>> /\ passes = 0
  /\ web = [cookies |-> FALSE, lastLogin |-> 0, rateLimitUntil |-> 0, creds |-> FALSE]
  /\ now = 0
  /\ req = [h \in Handlers |-> NoReq]
  /\ hands = Handlers
  /\ last429 = -1
  /\ rejected401 = FALSE
  /\ advances = 0
  /\ dline1 = "none" /\ dline2 = "none" /\ dimpl = "none" /\ dres = Absent
  /\ EpochIdle
  /\ RegimeIdle
  /\ hostZone = "UTC" /\ mdays = <<>> /\ mres = <<>>
  /\ fill = NoFill
  /\ pairIndex = FALSE

\* a request of user u arrives and its first query is answered
Request(h, u, route, name, ok) ==
  \E n \in RequestNorads :
    LET q == Query(ok, route, u, n, name, snapshot, DOMAIN tle_derived, telemetry)
    IN /\ h \in hands
       /\ call[h].pc \in {"idle", "done"}
       /\ passes < PassLimit
       /\ passes' = passes + 1
       /\ route # "rename" => name = "none"
       /\ call' = [call EXCEPT ![h] =
                     [user |-> u, route |-> route, norad |-> n, name |-> name,
                      pc |-> q.pc, status |-> q.status, rows |-> q.rows]]
       /\ snapshot' = q.sats
       /\ satellites' = KeysInOrder(satellites, q.sats)
       /\ UNCHANGED <<tle_history, tle_derived, dbFault, procs, job, obs>>
       /\ UNCHANGED <<web, now, req, hands, last429, rejected401, advances>>
       /\ UNCHANGED <<dline1, dline2, dimpl, dres, eyy, epath, eres, rdata, rres,
                      hostZone, mdays, mres, fill, pairIndex, telemetry>>

\* fetchFullSatelliteData has returned: null (404) or the element set
Fetched(h, found) ==
  /\ h \in hands
  /\ call[h].pc = "fetch_wait"
  /\ call' = [call EXCEPT ![h] =
                IF found THEN [call[h] EXCEPT !.pc = "store_wait"]
                ELSE [call[h] EXCEPT !.pc = "done", !.status = "404"]]
  /\ UNCHANGED <<varsJobs, varsWeb>>
  /\ UNCHANGED <<dline1, dline2, dimpl, dres, eyy, epath, eres, rdata, rres,
                 hostZone, mdays, mres, fill, pairIndex, telemetry>>

\* INSERT INTO satellites (..., user_id) VALUES (..., userId) ON CONFLICT
\* (norad_id, user_id) DO UPDATE SET ... RETURNING * is answered
Stored(h, ok) ==
  LET k   == <<call[h].norad, call[h].user>>
      tab == Upsert(snapshot, k, [name |-> "n0_iss", tle_line1 |-> Fresh.tle_line1,
                                  tle_line2 |-> Fresh.tle_line2])
  IN /\ h \in hands
     /\ call[h].pc = "store_wait"
     /\ snapshot' = IF ok THEN tab ELSE snapshot
     /\ satellites' = IF ok THEN KeysInOrder(satellites, tab) ELSE satellites
     /\ call' = [call EXCEPT ![h] =
                   IF ok THEN [call[h] EXCEPT !.pc = "done", !.status = "200",
                                              !.rows = {SatRow(k, tab[k])}]
                   ELSE [call[h] EXCEPT !.pc = "done", !.status = "500"]]
     /\ UNCHANGED <<tle_history, tle_derived, dbFault, procs, job, obs, passes>>
     /\ UNCHANGED <<web, now, req, hands, last429, rejected401, advances>>
     /\ UNCHANGED <<dline1, dline2, dimpl, dres, eyy, epath, eres, rdata, rres,
                    hostZone, mdays, mres, fill, pairIndex, telemetry>>

NextTenant ==
  \E h \in Handlers :
    \/ \E u \in Owners, route \in Routes, name \in RenameInputs, ok \in BOOLEAN :
         Request(h, u, route, name, ok)
    \/ \E found \in BOOLEAN : Fetched(h, found)
    \/ \E ok \in BOOLEAN : Stored(h, ok)

SpecTenant == InitTenant /\ [][NextTenant]_vars

MeanMotionOf(line2) == parseFloat(Slice(Text(line2), 52, 63))

\* C4: a derivation result is absent or has only finite numeric fields: an
\* unparseable extracted field makes the whole result absent.
C4_AbsentOrAllFinite ==
  dimpl # "none" => (dres = Absent \/ AllFinite(dres))

\* C5: every copy returns absent when a line is missing or the mean motion
\* parses to NaN, to zero or to a negative number.
C5_AbsentOnBadMeanMotion ==
  (dimpl # "none" /\ (\/ dline1 = "none" \/ dline2 = "none"
                      \/ MeanMotionOf(dline2).k = "nan"
                      \/ IsZero(MeanMotionOf(dline2))
                      \/ IsNegative(MeanMotionOf(dline2))))
    => dres = Absent

(***************************************************************************)
(* Properties of the stores and of the sync passes                         *)
(***************************************************************************)
\* C1: whatever passes and /add-satellite requests ran and however they
\* interleaved, tle_history and tle_derived each hold exactly one row for
\* every key (norad_id, epoch, user_id) they hold: an insert of a key that is
\* present adds no row.
C1_OneRowPerKey ==
  /\ \A r \in DOMAIN tle_history : CountKey(tle_history, RowKey(r)) = 1
  /\ \A r \in DOMAIN tle_derived : CountKey(tle_derived, RowKey(r)) = 1

\* a job has just inserted a history row whose key another row already held
C1_Witness ==
  \E p \in procs :
    /\ job[p].pc = "ins_der"
    /\ HistoryRow(job[p]) \notin DOMAIN tle_history
    /\ HasKey(tle_history, RowKey(HistoryRow(job[p])))

\* C2: when a pass inserts a history or a derived row whose key is present
\* (and the database is answering), the table is left exactly as it was and
\* the pass goes on as after a successful insert: to the derived insert after
\* the history insert, to the pacing delay or the next block after the
\* derived insert, with no failure recorded and no retry.
C2_ConflictIsNoop ==
  [][\A p \in procs :
       /\ (/\ job[p].pc = "ins_hist"
           /\ job'[p] # job[p]
           /\ ~dbFault
           /\ HasKey(tle_history, RowKey(HistoryRow(job[p]))))
          => /\ tle_history' = tle_history
             /\ job'[p].pc = "ins_der"
             /\ obs'[p].failed = obs[p].failed
             /\ obs'[p].other = obs[p].other
       /\ (/\ job[p].pc = "ins_der"
           /\ job'[p] # job[p]
           /\ ~dbFault
           /\ HasKey(tle_derived, RowKey(DerivedRow(job[p]))))
          => /\ tle_derived' = tle_derived
             /\ job'[p].pc \in {"sleep", "ins_hist", "waiting"}
             /\ job'[p].result \in {"running", "complete"}
             /\ obs'[p].failed = obs[p].failed
             /\ obs'[p].other = obs[p].other]_vars

\* a pass went on to its derived insert after a history insert that met a row
\* of its key with other values, and the derived row meets such a row too
C2_Witness ==
  \E p \in procs :
    /\ job[p].pc = "ins_der"
    /\ ~dbFault
    /\ HistoryRow(job[p]) \notin DOMAIN tle_history
    /\ HasKey(tle_history, RowKey(HistoryRow(job[p])))
    /\ DerivedRow(job[p]) \notin DOMAIN tle_derived
    /\ HasKey(tle_derived, RowKey(DerivedRow(job[p])))

\* C3: in a per-object pass that read a non-empty tracked set, whatever
\* happened to the objects handled so far (request error, empty or malformed
\* body, no derived result, insert error), every object up to the current one
\* was fetched, and the pass ends only as complete, with every object fetched.
C3_FailureIsConfined ==
  \A p \in procs :
    (job[p].variant \in PerObject /\ obs[p].readRows /\ Len(satellites) > 0)
      => /\ job[p].pc = "exited"
            => job[p].result = "complete" /\ obs[p].fetched = 1..Len(satellites)
         /\ job[p].pc = "fetch" => obs[p].fetched = 1..(job[p].idx - 1)
         /\ job[p].pc \in {"ins_hist", "ins_der", "sleep"}
            => obs[p].fetched = 1..job[p].idx

\* a per-object pass is complete, its first object failed and its second
\* object was fetched and stored
C3_Witness ==
  \E p \in procs :
    /\ job[p].variant \in PerObject
    /\ job[p].result = "complete"
    /\ Len(satellites) = 2
    /\ obs[p].failed = {1}
    /\ obs[p].fetched = {1, 2}
    /\ tle_derived # EmptyTable

\* C6: in an invocation of the batched pass whose attempts fail with
\* upstream request errors only, there are at most three attempts and three
\* logins, and the invocation has given up after exactly three of each.
C6_ThreeAttempts ==
  \A p \in procs :
    (job[p].variant = "batch" /\ ~obs[p].other)
      => /\ obs[p].attempts <= 3
         /\ obs[p].logins <= 3
         /\ job[p].result = "gave_up" => obs[p].attempts = 3 /\ obs[p].logins = 3

\* C9: a login that fails leaves no session held and its caller sees the
\* failure: the web handler's ensureSession returns false and the request is
\* answered with an error, a pass ends for lack of a session; without
\* credentials no session is held either.  No ensureSession call and no pass
\* start sends more than one login request.
C9_FailedLoginLeavesNoSession ==
  [][/\ \A h \in hands :
          /\ (req[h].login = "pending" /\ req'[h].login = "rejected")
             => ~web'.cookies /\ req'[h].session = "no" /\ req'[h].status \in {"404", "500"}
          /\ (req'[h].n # req[h].n /\ req'[h].login = "no_credentials")
             => ~web'.cookies /\ req'[h].session = "no" /\ req'[h].status \in {"404", "500"}
          /\ req'[h].logins <= 1
     /\ \A p \in procs :
          (job[p].pc = "start" /\ job'[p] # job[p])
            => /\ ~job'[p].cookies <=> job'[p].result = "no_session"
               /\ job'[p].cookies <=> job'[p].pc = "query"
               /\ obs'[p].logins <= obs[p].logins + 1
               /\ obs'[p].logins <= obs'[p].attempts]_vars

\* the web server held a session, let it go stale, and its next login request
\* was rejected
C9_Witness ==
  \E h \in hands :
    /\ req[h].login = "rejected"
    /\ req[h].n >= 2
    /\ ~web.cookies
    /\ now - web.lastLogin > SessionTtl
    /\ web.rateLimitUntil = 0
    /\ last429 = -1

\* C10: a pass attempt that could not establish a session has ended, and
\* it has not read the tracked objects, sent a fetch or written a row; the
\* positions at which a pass does any of these are reached with a session only.
C10_NoSessionNoWork ==
  \A p \in procs :
    /\ job[p].result = "no_session"
       => /\ job[p].pc \in {"exited", "waiting"}
          /\ ~obs[p].readRows
          /\ obs[p].fetched = {}
          /\ ~obs[p].wrote
    /\ job[p].pc \in {"query", "fetch", "ins_hist", "ins_der", "sleep"} => job[p].cookies

\* a pass ended for lack of a session while the tracked set is not empty
C10_Witness ==
  \E p \in procs :
    /\ job[p].result = "no_session"
    /\ obs[p].attempts >= 1
    /\ Len(satellites) > 0

(***************************************************************************)
(* Properties of the web server's session                                  *)
(***************************************************************************)
\* a handler sends an upstream request in this step
Sends(h) == req'[h].pc \in {"login_wait", "fetch_wait"} /\ req'[h].pc # req[h].pc

\* a handler calls ensureSession in this step
Calls(h) ==
  /\ req[h].pc \in {"idle", "done", "select_wait"}
  /\ req'[h] # req[h]
  /\ req'[h].pc = "login_wait" \/ req'[h].session # "none"

\* C7: once the upstream answered a request of the web server with 429 at
\* time t, no handler of any route sends a login or a query before t + 60 s.
C7_CooldownHolds ==
  [][\A h \in hands :
       Sends(h) => ~(last429 >= 0 /\ now < last429 + 60 * 1000)]_vars

\* C8 as stated: ensureSession sends a login request exactly when no session
\* is held or the session is older than 20 minutes; otherwise it sends
\* nothing, leaves the session as it is and reports it available.
C8_LoginIffNoFreshSession ==
  [][\A h \in hands :
       Calls(h)
         => /\ req'[h].pc = "login_wait"
               <=> (~web.cookies \/ now - web.lastLogin > 20 * 60 * 1000)
            /\ (web.cookies /\ now - web.lastLogin <= 20 * 60 * 1000)
               => web' = web /\ req'[h].session = "yes"]_vars

\* C8 amended: with the credentials configured, a login request is sent
\* exactly when no session is held or the session is older than 20 minutes;
\* without them none is sent and ensureSession reports no session.  With a
\* session at most 20 minutes old nothing is sent, the session is left as it
\* is and reported available.
C8_LoginIffNoFreshSessionAndCredentials ==
  [][\A h \in hands :
       Calls(h)
         => /\ web.creds
               => (req'[h].pc = "login_wait"
                     <=> (~web.cookies \/ now - web.lastLogin > 20 * 60 * 1000))
            /\ ~web.creds => req'[h].pc # "login_wait" /\ req'[h].session = "no"
            /\ (web.cookies /\ now - web.lastLogin <= 20 * 60 * 1000)
               => web' = web /\ req'[h].session = "yes" /\ req'[h].logins = 0]_vars

\* a handler went on without a login with a session exactly 20 minutes old
C8_Witness ==
  \E h \in hands :
    /\ req[h].pc = "fetch_wait"
    /\ req[h].logins = 0
    /\ web.cookies
    /\ req[h].at - web.lastLogin = 20 * 60 * 1000

(***************************************************************************)
(* Properties of pacing, re-login and throttling in the passes             *)
(***************************************************************************)
\* C11: in a per-object pass the request for an object after the first is
\* reached from the 1-second delay only, whatever happened to the object
\* before it.
C11_DelayBeforeEveryFetch ==
  [][\A p \in procs :
       (/\ job[p].variant \in PerObject
        /\ job'[p].pc = "fetch"
        /\ job'[p].idx > 1
        /\ job[p].idx = job'[p].idx - 1)
         => job[p].pc = "sleep"]_vars

\* C12: once the upstream has answered a request with 401, the session that
\* was rejected is held no longer: a per-object pass goes on to its next
\* object without the cookies, so that it logs in before that object's
\* request, and the web server's next ensureSession finds no session.
C12_RejectedSessionIsDropped ==
  /\ \A p \in procs :
       (job[p].variant \in PerObject /\ obs[p].err = "http401"
        /\ job[p].pc \in {"sleep", "fetch"})
         => ~job[p].cookies
  /\ rejected401 => ~web.cookies

\* C13: in a per-object pass, the request for the object that follows one
\* answered 429 is not sent: between the two lies the 1-second delay only,
\* less than any cooldown, so the object is passed over as failed.  The pass
\* goes on and does not end in an error.
C13_NoFetchAfterThrottle ==
  [][\A p \in procs :
       (/\ job[p].variant \in PerObject
        /\ job[p].pc = "fetch"
        /\ obs[p].err = "http429"
        /\ job'[p] # job[p])
         => /\ job[p].idx \notin obs'[p].fetched
            /\ job'[p].result \in {"running", "complete"}]_vars

(***************************************************************************)
(* Properties of what the passes store                                     *)
(***************************************************************************)
\* an element set of a response that is well formed and has a positive mean
\* motion
ValidSet(es) ==
  /\ NoradTable[es.line1].is1
  /\ NoradTable[es.line2].is2
  /\ DerivedTable["cron"][es.line1][es.line2].ok

\* the catalog number an element set is of
SetNorad(es) == TruncInt(parseInt(NoradTable[es.line1].str))

\* C14: when a batched pass has completed, every tracked pair (norad_id,
\* user_id) whose norad_id has a valid element set in the response has a
\* history row of that element set's epoch under that user_id, also when
\* several users track the norad_id; and every history row is under a user
\* who tracks its norad_id.
C14_EveryOwnerGetsItsRow ==
  \A p \in procs :
    (job[p].variant = "batch" /\ job[p].pc = "waiting" /\ job[p].result = "complete")
      => /\ \A k \in 1..Len(job[p].rows), n \in 1..Len(job[p].body.sets) :
              (/\ ValidSet(job[p].body.sets[n])
               /\ SetNorad(job[p].body.sets[n]) = job[p].rows[k].norad_id)
                => HasKey(tle_history,
                          <<job[p].rows[k].norad_id,
                            EpochTable["batch"][job[p].body.sets[n].line1],
                            job[p].rows[k].user_id>>)
         /\ \A r \in DOMAIN tle_history :
              \E k \in 1..Len(job[p].rows) :
                /\ job[p].rows[k].norad_id = r.norad_id
                /\ job[p].rows[k].user_id = r.user_id

\* the keys (norad_id, epoch, user_id) of the rows of a table
KeysOf(table) == {RowKey(r) : r \in DOMAIN table}

\* a job is not in the middle of an object: a per-object job is not between
\* its two inserts, the batched job is between two invocations
AtRest(j) == IF j.variant = "batch" THEN j.pc = "waiting" ELSE j.pc # "ins_der"

\* C15: whenever no job is in the middle of an object, and so at the end of
\* every pass, tle_history and tle_derived hold rows for the same keys, also
\* after a pass in which an insert failed.
C15_HistoryIffDerived ==
  (\A p \in procs : AtRest(job[p])) => KeysOf(tle_history) = KeysOf(tle_derived)

\* no history row of the (norad_id, user_id) of r has a later epoch than r
Newest(r) ==
  \A q \in DOMAIN tle_history :
    (q.norad_id = r.norad_id /\ q.user_id = r.user_id) => ~EpochBefore(r.epoch, q.epoch)

\* C16: when a pass has completed, the row of satellites of every (norad_id,
\* user_id) carries the lines of the newest element set stored for it in
\* tle_history.
C16_SnapshotCarriesNewest ==
  (\E p \in procs : job[p].result = "complete" /\ obs[p].wrote)
    => \A r \in DOMAIN tle_history :
         Newest(r)
           => /\ <<r.norad_id, r.user_id>> \in DOMAIN snapshot
              /\ snapshot[<<r.norad_id, r.user_id>>].tle_line1 = r.tle_line1
              /\ snapshot[<<r.norad_id, r.user_id>>].tle_line2 = r.tle_line2

(***************************************************************************)
(* Properties of the web server's on-demand fetch                          *)
(***************************************************************************)
\* a request of /api/satellite/:norad_id that found no row of the caller is
\* answered in this step
ChainEnds(h) ==
  /\ req[h].route = "sat"
  /\ req[h].pc \in {"select_wait", "login_wait", "fetch_wait", "store_wait"}
  /\ req'[h].pc = "done"
  /\ req[h].pc = "select_wait" => req'[h].session # "none"

\* C17: a request of /api/satellite/:norad_id that found no row of the caller
\* and went on to fetch, derive and store is answered 200 with the row
\* stored, or, when a step failed (no session, cooldown, transport error,
\* empty result, the store failing), 404 with no row written; never 5xx.
C17_ChainFailureIsNotFound ==
  [][\A h \in hands :
       ChainEnds(h)
         => \/ req'[h].status = "200" /\ SatKey \in DOMAIN snapshot'
            \/ req'[h].status = "404" /\ snapshot' = snapshot]_vars

(***************************************************************************)
(* Properties of the one-shot job's exit                                   *)
(***************************************************************************)
\* C18: the process of the one-shot job exits with status 0 when its pass
\* completed, also with objects that failed, and with another status when the
\* pass was not begun because the upstream credentials are missing.
C18_ExitStatus ==
  \A p \in procs :
    (job[p].variant = "oneshot" /\ job[p].pc = "exited")
      => /\ job[p].result = "complete" => job[p].exit = "0"
         /\ (job[p].result = "no_session" /\ obs[p].logins = 0)
              => job[p].exit \notin {"0", "none"}

(***************************************************************************)
(* Properties of the epoch's year                                          *)
(***************************************************************************)
\* C19: for every two-digit year yy of 00..99 in line 1, each path that
\* resolves an epoch (cron job, one-shot job, batched job, /add-satellite)
\* resolves the year 2000 + yy when yy < 57 and 1900 + yy otherwise.
C19_CenturyPivot ==
  epath # "none"
    => /\ eres.valid
       /\ eres.year = IF eyy < 57 THEN 2000 + eyy ELSE 1900 + eyy

\* the one-shot job resolved year 56 to 2056
C19_Witness ==
  epath = "oneshot" /\ eyy = 56 /\ eres.valid /\ eres.year = 2056

(***************************************************************************)
(* Properties of the orbit regime                                          *)
(***************************************************************************)
\* the regime of an altitude (metres): LEO below 2000 km, else GEO within
\* 2000 km of 35786 km on either side, else MEO below 35786 km, else HEO
Regime(a) ==
  IF a < 2000000 THEN "LEO"
  ELSE IF a >= 35786000 - 2000000 /\ a <= 35786000 + 2000000 THEN "GEO"
  ELSE IF a < 35786000 THEN "MEO"
  ELSE "HEO"

\* C20: for an object with a positive mean motion, the orbit regime that
\* calculateDerivedParams gives for the snapshot is LEO for an altitude below
\* 2000 km, otherwise GEO within 2000 km of 35786 km on either side,
\* otherwise MEO below 35786 km, otherwise HEO.
C20_RegimeOfAltitude ==
  (rres # NoParams /\ rdata.mean_motion > 0)
    => rres.orbit_type = Regime(Altitude(rdata))

(***************************************************************************)
(* Properties of the derivation's fields                                   *)
(***************************************************************************)
\* the decimals each field of a derivation result is documented to carry
DocumentedDecimals(f) ==
  CASE f \in {"inclination", "raan", "arg_perigee", "mean_anomaly"} -> {4}
    [] f \in {"eccentricity", "mean_motion"} -> {8}
    [] f \in {"semi_major_axis_km", "perigee_km", "apogee_km", "altitude_km"} -> {2}
    [] f \in {"velocity_kms", "orbital_period_minutes"} -> {4}
    [] OTHER -> {2, 4, 8}

\* C21: every numeric field of a derivation result is rounded to its
\* documented number of decimals: 4 for the angles, 8 for eccentricity and
\* mean motion, 2 for the distances, 4 for velocity and period; no field is
\* returned unrounded or with another number of decimals.
C21_DocumentedPrecision ==
  (dimpl # "none" /\ dres # Absent)
    => \A f \in NumericFields : dres[f].dec \in DocumentedDecimals(f)

(***************************************************************************)
(* Properties of the order of a pass's requests                            *)
(***************************************************************************)
\* the pass of p sends a request for TLEs in this step: it comes to await
\* axios.get for another object, or for the batched list
SendsFetch(p) ==
  /\ job'[p].pc = "fetch"
  /\ job[p].pc # "fetch" \/ job'[p].idx # job[p].idx

LoggingIn == {h \in hands : req[h].pc = "login_wait"}

\* C23: of the handlers that call ensureSession while no fresh session is
\* held, at most one has a login request pending; and the answer to a login
\* leaves the cooldown as it is and never takes away a session that is held.
C23_OneLoginAtATime ==
  [][/\ Cardinality(LoggingIn') <= 1
     /\ \A h \in hands :
          (req[h].pc = "login_wait" /\ req'[h].pc # "login_wait")
            => /\ web'.rateLimitUntil = web.rateLimitUntil
               /\ web.cookies => web'.cookies]_vars

(***************************************************************************)
(* Properties of the end of a pass                                         *)
(***************************************************************************)
\* C24: when every await of a pass returns in the end, every invocation of
\* fetchAndStoreTLEs by the job process ends: completed (also with nothing to do), left for want
\* of a session, or given up after its failure, the batched pass after at
\* most RetryLimit retries; the retries do not go on for ever.
C24_PassTerminates ==
  /\ [](\A p \in procs : job[p].retryCount <= RetryLimit)
  /\ (job[1].result = "running")
       ~> (job[1].result \in {"complete", "no_sats", "no_session", "gave_up", "failed"})

\* a batched pass gave up after its retries
C24_Witness ==
  \E p \in procs :
    /\ job[p].variant = "batch"
    /\ job[p].pc = "waiting"
    /\ job[p].result = "gave_up"
    /\ obs[p].attempts = RetryLimit + 1

(***************************************************************************)
(* Properties of the batched pass                                          *)
(***************************************************************************)
\* C25: in a batched pass, the end of an INSERT for one element set of the
\* response, also when the database rejected it, leaves the pass in the same
\* attempt: it goes on to the INSERTs of the element sets that remain, or the
\* attempt completes; it is not thrown to the retry of the whole pass.
C25_SetFailureIsConfined ==
  [][\A p \in procs :
       (/\ job[p].variant = "batch"
        /\ job[p].pc \in {"ins_hist", "ins_der"}
        /\ job'[p] # job[p])
         => \/ job'[p].pc \in {"ins_hist", "ins_der"}
            \/ job'[p].pc = "waiting" /\ job'[p].result = "complete"]_vars

\* C26: a pass does not send its request for TLEs with cookies older than
\* the 20 minutes of the freshness TTL: the batched job, whose passes lie 12
\* hours apart, logs in again before the request of every later pass.
C26_NoStaleSession ==
  \A p \in procs :
    (job[p].variant = "batch" /\ job[p].pc = "fetch")
      => job[p].ticks * TickInterval <= SessionTtl

\* C27: in the long-running job a pass that gave up after its retries, or
\* returned for want of a session, leaves the process alive (it never exits
\* and the timer can fire), and what follows such a pass is a new pass that
\* starts with attempt counter 0.
C27_TickStartsAfresh ==
  /\ [](\A p \in procs :
          job[p].variant = "batch"
            => /\ job[p].pc # "exited"
               /\ (job[p].pc = "waiting" /\ passes < PassLimit) => ENABLED Tick(p))
  /\ [][\A p \in procs :
          (job[p].pc = "waiting" /\ job[p].result \in {"gave_up", "no_session"}
             /\ job'[p] # job[p])
            => /\ job'[p].variant = "batch"
               /\ job'[p].pc = "start"
               /\ job'[p].result = "running"
               /\ job'[p].retryCount = 0
               /\ obs'[p].attempts = 0]_vars

C27_Witness ==
  \E p \in procs : job[p].variant = "batch" /\ job[p].last = "gave_up"
                     /\ job[p].pc = "query" /\ job[p].retryCount = 0

\* C28: the element set a pass takes from a response and the rows it stores
\* have the line that begins with "1 " as tle_line1 and the line that begins
\* with "2 " as tle_line2: neither the name line nor line 2 stands in the
\* place of line 1.
C28_LinesInTheirPlaces ==
  /\ \A p \in procs :
       job[p].pc \in {"ins_hist", "ins_der"}
         => NoradTable[job[p].cur.line1].is1 /\ NoradTable[job[p].cur.line2].is2
  /\ \A r \in DOMAIN tle_history :
       NoradTable[r.tle_line1].is1 /\ NoradTable[r.tle_line2].is2

\* x and y are the same finite number (zero has no sign here)
SameNumber(x, y) ==
  /\ x.k = "fin" /\ y.k = "fin"
  /\ \/ x.m = 0 /\ y.m = 0
     \/ /\ x.neg = y.neg
        /\ LET low == IF x.e < y.e THEN x.e ELSE y.e
           IN x.m * Pow10(x.e - low) = y.m * Pow10(y.e - low)

\* the drag term as documented for columns 54-61 of line 1: a mantissa sign,
\* the mantissa digits behind an implied decimal point, a signed exponent
\* digit; 0 for the empty field
DocumentedBstar(field) ==
  LET t      == Trim(field)
      signed == Len(t) > 0 /\ t[1] \in {"+", "-"}
      body   == IF signed THEN SubSeq(t, 2, Len(t)) ELSE t
      digits == SubSeq(body, 1, Len(body) - 2)
      x      == DigitVal(body[Len(body)])
  IN IF t = <<>> THEN Fin(FALSE, 0, 0)
     ELSE Fin(signed /\ t[1] = "-", parseInt(digits).m,
              (IF body[Len(body) - 1] = "-" THEN 0 - x ELSE x) - Len(digits))

\* C29: the bstar a derivation returns is the number columns 54-61 of line 1
\* denote, sign * 0.mantissa * 10^exponent, whatever the signs of mantissa
\* and exponent, and 0 for the empty field.
C29_BstarValue ==
  (dimpl # "none" /\ dres # Absent)
    => SameNumber(dres.bstar.v, DocumentedBstar(Slice(Text(dline1), 53, 61)))

\* C30: the epoch resolved depends on line 1 alone (it is the same in every
\* time zone the host may run in) and keeps the order of the days: for one
\* year and days of year d1 <= d2, the epoch of d1 is not later than the
\* epoch of d2, on every path that resolves an epoch.
C30_EpochKeepsOrder ==
  mres # <<>>
    => /\ ~EpochBefore(mres[2], mres[1])
       /\ \A z \in HostZones : EpochPair(z, epath, mdays) = mres

\* C31: the backfill script writes derived rows by (norad_id, epoch, user_id):
\* when it has ended, every history row it can derive from has a derived row
\* of its key that carries its owner, so that two owners' rows of one
\* norad_id and epoch give two derived rows; and handling a history row
\* leaves every derived row of another owner as it was.
C31_BackfillKeepsOwners ==
  /\ [](fill.pc = "exited"
          => \A h \in DOMAIN tle_history :
               ScriptTable[h.tle_line1][h.tle_line2].ok
                 => \E q \in DOMAIN tle_derived : RowKey(q) = RowKey(h))
  /\ [][fill' # fill
          => \A r \in fill'.last, q \in DOMAIN tle_derived :
               q.user_id # r.user_id => q \in DOMAIN tle_derived']_vars

\* C32: the paths that resolve an epoch (/add-satellite, the cron job, the
\* one-shot job, the batched job) resolve the same instant for the same line
\* 1, so that one element set stored through two paths has one key.
C32_PathsAgree ==
  mres # <<>>
    => \A path \in EpochPaths : EpochPair(hostZone, path, mdays) = mres

\* the rows of user u in the three tables the routes work on
RowsOf(u, sats, derived, tel) ==
  [sats      |-> [k \in {x \in DOMAIN sats : x[2] = u} |-> sats[k]],
   derived   |-> {r \in derived : r.user_id = u},
   telemetry |-> {r \in tel : r.user_id = u}]

\* C33: a request of an authenticated user u to the single-satellite read,
\* the derived-history read, the telemetry read, the rename or the delete
\* route answers with rows of u only; it leaves the rows of every other user
\* as they were; and its answer is the one it would give if only the rows of
\* u existed, so that it reveals nothing of the rows of another user.
C33_TenantIsolation ==
  /\ [](\A h \in DOMAIN call : \A r \in call[h].rows : r.user_id = call[h].user)
  /\ [][\A h \in DOMAIN call :
          call'[h] # call[h]
            => LET u == call'[h].user
               IN /\ \A v \in Owners \ {u} :
                       RowsOf(v, snapshot', DOMAIN tle_derived', telemetry')
                         = RowsOf(v, snapshot, DOMAIN tle_derived, telemetry)
                  /\ call[h].pc \in {"idle", "done"}
                       => \E ok \in BOOLEAN :
                            LET own == RowsOf(u, snapshot, DOMAIN tle_derived, telemetry)
                                q   == Query(ok, call'[h].route, u, call'[h].norad,
                                             call'[h].name, own.sats, own.derived,
                                             own.telemetry)
                            IN /\ call'[h].status = q.status
                               /\ call'[h].rows = q.rows
                               /\ call'[h].pc = q.pc]_vars

\* u1 has read its derived rows, renamed and deleted its satellite while u2
\* holds rows of the same object
C33_Witness ==
  /\ <<25544, "u2">> \in DOMAIN snapshot
  /\ <<25544, "u1">> \notin DOMAIN snapshot
  /\ call[1].user = "u1" /\ call[1].route = "delete" /\ call[1].status = "200"
  /\ call[2].user = "u1" /\ call[2].route = "derived" /\ call[2].status = "200"
  /\ call[2].rows # {}
  /\ \E r \in DOMAIN tle_derived : r.user_id = "u2" /\ r.norad_id = 25544

=============================================================================
